---- MODULE Spec2Model ----
(***************************************************************************)
(* Model of the delivery-route preparation pipeline:                       *)
(*   - the correct-addresses edge function (serve handler and              *)
(*     correctAddressesBatchWithAI), specification Spec;                   *)
(*   - processFile of the Index page (grouping, sequence merge, the race   *)
(*     of the correction call against the 2-minute timer), SpecFile;       *)
(*   - normalizeAddress as a pure function, SpecNorm;                      *)
(*   - the coordinate validation of correct-addresses (geocodeAddress,     *)
(*     calculateDistance) on rows with coordinates, SpecGeo;               *)
(*   - the batch-geocode edge function (structured, free-text and          *)
(*     corrective lookups), SpecResolve;                                   *)
(*   - addressMatchesExpected as a pure function, SpecMatch;               *)
(*   - the credit balance of the Index page, handleExport and the          *)
(*     realtime profile updates, SpecExport.                               *)
(* JavaScript strings are sequences of one-character strings.              *)
(***************************************************************************)
EXTENDS Integers, Sequences, FiniteSets, TLC

\* ------------------------------------------------------------------------
\* Bounds of the model
\* ------------------------------------------------------------------------
MaxRows == 2

\* ------------------------------------------------------------------------
\* JavaScript string primitives
\* ------------------------------------------------------------------------
Digits == {"0", "1", "2", "3", "4", "5", "6", "7", "8", "9"}
SpaceChars == {" ", "\n", "\t"}
SepChars == {","} \cup SpaceChars

IsSpace(c) == c \in SpaceChars

RECURSIVE TrimStart(_)
TrimStart(s) ==
  IF s # <<>> /\ IsSpace(Head(s)) THEN TrimStart(Tail(s)) ELSE s

RECURSIVE TrimEnd(_)
TrimEnd(s) ==
  IF s # <<>> /\ IsSpace(s[Len(s)]) THEN TrimEnd(SubSeq(s, 1, Len(s) - 1)) ELSE s

Trim(s) == TrimEnd(TrimStart(s))

\* s.replace(/\s+/g, ' ')
\* variant of CollapseSpaces that replaces pairs of white space, /\s\s/g
RECURSIVE CollapseSpaces_Pairs(_)
CollapseSpaces_Pairs(s) ==
  IF s = <<>> THEN <<>>
  ELSE IF Len(s) >= 2 /\ IsSpace(s[1]) /\ IsSpace(s[2])
  THEN <<" ">> \o CollapseSpaces_Pairs(SubSeq(s, 3, Len(s)))
  ELSE <<s[1]>> \o CollapseSpaces_Pairs(Tail(s))

RECURSIVE CollapseSpaces(_)
CollapseSpaces(s) ==
  IF s = <<>> THEN <<>>
  ELSE IF IsSpace(Head(s)) THEN <<" ">> \o CollapseSpaces(TrimStart(s))
  ELSE <<Head(s)>> \o CollapseSpaces(Tail(s))

\* length of the longest run of characters of C that starts at index i
RunFrom(s, i, C) ==
  CHOOSE k \in 0..(Len(s) + 1 - i) :
    /\ \A j \in i..(i + k - 1) : s[j] \in C
    /\ (i + k > Len(s) \/ s[i + k] \notin C)

Min(S) == CHOOSE x \in S : \A y \in S : x <= y

\* decimal digits of a natural number, String(n)
RECURSIVE NatToStr(_)
NatToStr(n) ==
  LET d == <<"0", "1", "2", "3", "4", "5", "6", "7", "8", "9">>[(n % 10) + 1]
  IN IF n < 10 THEN <<d>> ELSE NatToStr(n \div 10) \o <<d>>

\* spreadsheet / JSON cell values: a missing key, a number or a string
DigitValue(c) == CHOOSE d \in 0..9 : NatToStr(d) = <<c>>

Undef == [t |-> "undef"]
NumCell(n) == [t |-> "num", n |-> n]
StrCell(s) == [t |-> "str", s |-> s]

\* String(v || '')
StringOrEmpty(v) ==
  IF v.t = "str" THEN v.s
  ELSE IF v.t = "num" /\ v.n # 0 THEN NatToStr(v.n)
  ELSE <<>>

\* all sequences over A of length at most n
RECURSIVE SeqsUpTo(_, _)
SeqsUpTo(A, n) ==
  IF n = 0 THEN {<<>>}
  ELSE LET S == SeqsUpTo(A, n - 1)
       IN S \cup {Append(s, c) : s \in {x \in S : Len(x) = n - 1}, c \in A}

\* ------------------------------------------------------------------------
\* correct-addresses edge function
\* ------------------------------------------------------------------------
AI_BATCH_SIZE == 15
BATCH_DELAY == 1500
retries_Four == 3 + 1
retries == 3

\* text.split('\n')
RECURSIVE SplitLines(_)
SplitLines(s) ==
  LET nl == {i \in 1..Len(s) : s[i] = "\n"}
  IN IF nl = {} THEN <<s>>
     ELSE <<SubSeq(s, 1, Min(nl) - 1)>> \o SplitLines(SubSeq(s, Min(nl) + 1, Len(s)))

\* line.replace(/^\d+\.\s*/, '')
StripNumberPrefix(line) ==
  LET d == RunFrom(line, 1, Digits)
  IN IF d >= 1 /\ d + 1 <= Len(line) /\ line[d + 1] = "."
     THEN TrimStart(SubSeq(line, d + 2, Len(line)))
     ELSE line

\* .split('\n').filter(line => line.trim()).map(line => line.replace(...).trim())
ParseNumberedList(correctedText) ==
  LET lines == SelectSeq(SplitLines(correctedText), LAMBDA l : Trim(l) # <<>>)
  IN [i \in 1..Len(lines) |-> Trim(StripNumberPrefix(lines[i]))]

\* addresses.map((addr, idx) => `${idx + 1}. ${addr}`).join('\n')
RECURSIVE JoinLines(_)
JoinLines(ls) ==
  IF ls = <<>> THEN <<>>
  ELSE IF Len(ls) = 1 THEN ls[1]
  ELSE ls[1] \o <<"\n">> \o JoinLines(Tail(ls))

NumberedList(addresses) ==
  JoinLines([i \in 1..Len(addresses) |-> NatToStr(i) \o <<".", " ">> \o addresses[i]])

\* variants of CorrectionFromContent with a wrong length check
CorrectionFromContent_AnyLength(addresses, content) ==
  LET correctedText == Trim(content)
  IN IF correctedText = <<>> THEN addresses
     ELSE ParseNumberedList(correctedText)

CorrectionFromContent_Truncating(addresses, content) ==
  LET correctedText == Trim(content)
  IN IF correctedText = <<>> THEN addresses
     ELSE LET correctedAddresses == ParseNumberedList(correctedText)
          IN IF Len(correctedAddresses) >= Len(addresses)
             THEN SubSeq(correctedAddresses, 1, Len(addresses))
             ELSE addresses

\* the value returned for an OK response whose content is `content`

CorrectionFromContent(addresses, content) ==
  LET correctedText == Trim(content)
  IN IF correctedText = <<>> THEN addresses
     ELSE LET correctedAddresses == ParseNumberedList(correctedText)
          IN IF Len(correctedAddresses) = Len(addresses)
             THEN correctedAddresses
             ELSE addresses


\* rows of a request: the address column may be missing from a row.  rest
\* stands for the columns of the row other than address and coordinates.
ServeAddresses == {<<>>, <<"a">>, <<"b">>}
ServeRowValues ==
  {[hasAddressKey |-> FALSE, address |-> Undef, lat |-> Undef, lon |-> Undef,
    rest |-> StrCell(<<"n">>)]}
    \cup {[hasAddressKey |-> TRUE, address |-> StrCell(a),
           lat |-> Undef, lon |-> Undef, rest |-> StrCell(<<"r">> \o a)] :
             a \in ServeAddresses}

\* a request of more than AI_BATCH_SIZE rows: rows with a blank address
\* followed by a short list, so that a second batch exists
BlankRow ==
  [hasAddressKey |-> TRUE, address |-> StrCell(<<>>), lat |-> Undef, lon |-> Undef,
   rest |-> StrCell(<<"p">>)]
Padding == [i \in 1..(AI_BATCH_SIZE - 1) |-> BlankRow]
ServeInputs ==
  SeqsUpTo(ServeRowValues, MaxRows)
    \cup {Padding \o l : l \in {x \in SeqsUpTo(ServeRowValues, 2) : Len(x) = 2}}

\* contents the AI provider may answer with: up to MaxLines lines, each a
\* blank line, a bare address, a numbered address or a number alone
ResponseLines ==
  {<<" ">>, <<"x">>, <<"1", ".", " ", "y">>, <<"2", ".">>}
MaxLines == MaxRows + 1
Texts == {JoinLines(ls) : ls \in SeqsUpTo(ResponseLines, MaxLines)}

VARIABLES
  rows,               \* req.json().rows
  sPc,                \* position of the serve handler
  batchStart,         \* loop variable of the batch loop
  attempt,            \* loop variable of correctAddressesBatchWithAI
  requestBody,        \* numbered list sent by the last fetch
  requests,           \* fetches issued for the current batch
  outcomes,           \* what each fetch of the current batch met
  waitTime,           \* back-off of the pending rate-limit wait
  parsedCount,        \* non-blank lines of the last OK response, -1 if none
  correctedAddresses, \* value returned by correctAddressesBatchWithAI
  correctedRows,      \* accumulated output rows
  ownCorrection,      \* per output row: what the provider answered for it
  response,           \* HTTP status of the reply, 0 while running
  batchResults,       \* updatedRow of each callback of the current Promise.all
  pendingGeo,         \* callbacks awaiting geocodeAddress (requests in flight)
  geoOutcome          \* per mapped row: what geocodeAddress met for it

geoVars == <<batchResults, pendingGeo, geoOutcome>>

serveVars == <<rows, sPc, batchStart, attempt, requestBody, requests, outcomes,
               waitTime, parsedCount, correctedAddresses, correctedRows, ownCorrection,
               response, geoVars>>

VARIABLES
  jsonData,            \* rows of the uploaded sheet (sheet_to_json)
  fPc,                 \* position of processFile
  currentStep,         \* wizard step 1, 2 or 3
  isProcessing,
  progress,
  grouped,             \* own properties of `grouped`, in insertion order
  results,             \* merged rows, one per group
  processedData,       \* rows shown and exported
  timerPending,        \* the 2-minute timer has not fired yet
  correctionPending,   \* the correct-addresses call has not settled yet
  raceWinner,          \* what settled Promise.race, "none" before
  totalSequencesCount, \* window.totalSequencesCount
  fError               \* the error caught by processFile, "none" if none

fileVars == <<jsonData, fPc, currentStep, isProcessing, progress, grouped,
              results, processedData, timerPending, correctionPending,
              raceWinner, totalSequencesCount, fError>>

VARIABLES
  nIn,   \* two addresses given by their parts
  nKeys, \* their grouping keys, <<>> before normalizeAddress ran
  nAgain \* the keys of the keys, <<>> before the second application

normVars == <<nIn, nKeys, nAgain>>

VARIABLES
  addresses,   \* req.json().addresses of batch-geocode
  rPc,         \* position of the batch-geocode handler
  rI,          \* loop variable i
  found,       \* <<>> for null, else <<result>>
  retr,        \* result of the corrective retry, <<>> for null
  note,        \* the parts of `note`, which are joined by ";"
  searchUsed,  \* the prefix of searchUsed
  rResults,    \* `results` of batch-geocode
  rResponse,   \* HTTP status of the reply, 0 while running
  rCalls,      \* provider calls made for the current row
  rLogs,       \* per result: the provider calls made for its row
  slept        \* RATE_LIMIT_DELAY has elapsed since the last provider call

resolveVars == <<addresses, rPc, rI, found, retr, note, searchUsed, rResults,
                 rResponse, rCalls, rLogs, slept>>

\* addressMatchesExpected as a pure function
VARIABLES
  mAddress,    \* the provider's address details
  mExpected,   \* the locality hints of the row
  mChecks      \* <<>> or the three checks and the returned value

matchVars == <<mAddress, mExpected, mChecks>>

\* Index page: the credit balance and handleExport
VARIABLES
  ledger,         \* profiles.credits of the user, on the server
  credits,        \* the credits state of the page
  notifications,  \* profile UPDATE payloads not yet delivered to the page
  ePc,            \* position of handleExport
  creditsAtCall,  \* credits as captured by the running handleExport
  rpcReply,       \* the reply of deduct_credit on its way to the page
  showBuyCredits,
  exports         \* history: one record per finished handleExport call

exportVars == <<ledger, credits, notifications, ePc, creditsAtCall, rpcReply,
                showBuyCredits, exports>>

vars == <<serveVars, fileVars, normVars, resolveVars, matchVars, exportVars>>

MatchIdle == mAddress = <<>> /\ mExpected = <<>> /\ mChecks = <<>>

ExportIdle ==
  /\ ledger = 0 /\ credits = 0 /\ notifications = <<>> /\ ePc = "idle"
  /\ creditsAtCall = 0 /\ rpcReply = "none" /\ showBuyCredits = FALSE
  /\ exports = <<>>

\* the state of the Index page after construction
FileIdle ==
  /\ jsonData = <<>> /\ fPc = "idle" /\ currentStep = 1
  /\ isProcessing = FALSE /\ progress = 0 /\ grouped = <<>>
  /\ results = <<>> /\ processedData = <<>> /\ timerPending = FALSE
  /\ correctionPending = FALSE /\ raceWinner = "none"
  /\ totalSequencesCount = 0 /\ fError = "none"

NormIdle == nIn = <<>> /\ nKeys = <<>> /\ nAgain = <<>>

ResolveIdle ==
  /\ addresses = <<>> /\ rPc = "idle" /\ rI = 0 /\ found = <<>> /\ retr = <<>>
  /\ note = <<>> /\ searchUsed = "" /\ rResults = <<>> /\ rResponse = 0
  /\ rCalls = <<>> /\ rLogs = <<>> /\ slept = TRUE

BatchEnd == Min({batchStart + AI_BATCH_SIZE, Len(rows)})
Batch == SubSeq(rows, batchStart + 1, BatchEnd)

\* originalAddress of addressData
OriginalAddress(row) ==
  IF row.hasAddressKey THEN Trim(StringOrEmpty(row.address)) ELSE <<>>

\* addressData.map(d => d.originalAddress).filter(a => a)
Addresses(batch) ==
  SelectSeq([i \in 1..Len(batch) |-> OriginalAddress(batch[i])],
            LAMBDA a : a # <<>>)

\* position of row idx of the batch in the list sent to the provider
SentPosition(batch, idx) ==
  Cardinality({j \in 1..idx : OriginalAddress(batch[j]) # <<>>})

\* variant of MapRow that builds the updated row from the address alone
MapRow_AddressOnly(row, idx, corrected) ==
  IF ~row.hasAddressKey THEN row
  ELSE LET originalAddress == OriginalAddress(row)
           correctedAddress ==
             IF idx <= Len(corrected) /\ corrected[idx] # <<>>
             THEN corrected[idx] ELSE originalAddress
       IN [row EXCEPT !.address = StrCell(correctedAddress), !.rest = Undef]

\* body of the Promise.all callback, address part
MapRow(row, idx, corrected) ==
  IF ~row.hasAddressKey THEN row
  ELSE LET originalAddress == OriginalAddress(row)
           correctedAddress ==
             IF idx <= Len(corrected) /\ corrected[idx] # <<>>
             THEN corrected[idx] ELSE originalAddress
       IN IF correctedAddress # originalAddress
          THEN [row EXCEPT !.address = StrCell(correctedAddress)]
          ELSE row

\* ---- coordinate validation ----
\* Coordinates are held as whole microdegrees.
MicroDegrees == 1000 * 1000

RECURSIVE DigitsValue(_)
DigitsValue(s) ==
  IF s = <<>> THEN 0
  ELSE DigitsValue(SubSeq(s, 1, Len(s) - 1)) * 10 + DigitValue(s[Len(s)])

\* parseFloat(row[key]): <<n>> for a number, <<>> for NaN.  A number cell is
\* itself; a text is read up to the end of its leading digits.
ParseFloat(v) ==
  IF v = Undef THEN <<>>
  ELSE IF v.t = "num" THEN <<v.n>>
  ELSE LET t == TrimStart(v.s)
           d == RunFrom(t, 1, Digits)
       IN IF d = 0 THEN <<>>
          ELSE <<DigitsValue(SubSeq(t, 1, d)) * MicroDegrees>>

R == 6371000
Abs(x) == IF x < 0 THEN 0 - x ELSE x

\* R * c in millimetres for an arc c of d microdegrees (pi taken as 355/113)
ArcLength(d) == ((((R \div 1000) * d) \div 180) * 355) \div 113

\* calculateDistance in millimetres, on the two great circles where the
\* haversine formula reduces to R times the angle: two points of one
\* meridian (a = sin^2(dphi/2)) and two points of the equator
\* (a = sin^2(dlambda/2)).
calculateDistance(lat1, lon1, lat2, lon2) ==
  CASE lon1 = lon2 -> ArcLength(Abs(lat2 - lat1))
    [] lat1 = 0 /\ lat2 = 0 -> ArcLength(Abs(lon2 - lon1))

\* `distance > 200`, in metres
DistanceLimit_TwoKilometres == 200 * 10
DistanceLimit == 200

\* stored coordinates of the rows: a point of the equator
StoredLon == 0 - 43172900

\* where the geocoder may put an address, relative to the stored point, and
\* on which side of 200 m that is: about 150.0 m, 199.9 m, 200.04 m, 250.0 m
GeoDisplacements ==
  {[dLat |-> 1349, dLon |-> 0, far |-> FALSE],
   [dLat |-> 0, dLon |-> 1798, far |-> FALSE],
   [dLat |-> 1799, dLon |-> 0, far |-> TRUE],
   [dLat |-> 0, dLon |-> 0 - 2248, far |-> TRUE]}

NoGeocoding == [kind |-> "none", lat |-> 0, lon |-> 0, far |-> FALSE]

\* what geocodeAddress meets: a non-OK status, an empty list, an exception
\* (fetch rejects, json() throws) or a first result
GeocodeReplies(originalLat, originalLon) ==
  {[kind |-> k, lat |-> 0, lon |-> 0, far |-> FALSE] :
     k \in {"notok", "empty", "throw"}}
    \cup {[kind |-> "found", lat |-> originalLat + d.dLat,
           lon |-> originalLon + d.dLon, far |-> d.far] : d \in GeoDisplacements}

\* geocodeAddress: null, written <<>>, or <<[lat, lon]>>
geocodeAddress(reply) ==
  IF reply.kind = "found" THEN <<[lat |-> reply.lat, lon |-> reply.lon]>>
  ELSE <<>>

\* the callback of row idx issues a geocoding request
AwaitsGeocoding(row) ==
  /\ row.hasAddressKey
  /\ ParseFloat(row.lat) # <<>>
  /\ ParseFloat(row.lon) # <<>>

\* variant of ValidateCoordinates that drops the coordinates it could not
\* confirm
ValidateCoordinates_ClearsOnFailure(row, updatedRow, geocoded) ==
  IF geocoded = <<>>
  THEN [updatedRow EXCEPT !.lat = Undef, !.lon = Undef]
  ELSE LET distance == calculateDistance(ParseFloat(row.lat)[1],
                                         ParseFloat(row.lon)[1],
                                         geocoded[1].lat, geocoded[1].lon)
       IN IF distance > DistanceLimit * 1000
          THEN [updatedRow EXCEPT !.lat = NumCell(geocoded[1].lat),
                                  !.lon = NumCell(geocoded[1].lon)]
          ELSE updatedRow

\* the callback after `await geocodeAddress`
ValidateCoordinates(row, updatedRow, geocoded) ==
  IF geocoded = <<>> THEN updatedRow
  ELSE LET distance == calculateDistance(ParseFloat(row.lat)[1],
                                         ParseFloat(row.lon)[1],
                                         geocoded[1].lat, geocoded[1].lon)
       IN IF distance > DistanceLimit * 1000
          THEN [updatedRow EXCEPT !.lat = NumCell(geocoded[1].lat),
                                  !.lon = NumCell(geocoded[1].lon)]
          ELSE updatedRow

\* rows with coordinate columns and a blank address (no correction request
\* is made for them): numeric coordinates, a latitude that is not a number,
\* no address column
GeoRowValues ==
  {[hasAddressKey |-> TRUE, address |-> StrCell(<<>>),
    lat |-> NumCell(0), lon |-> NumCell(StoredLon), rest |-> StrCell(<<"g">>)],
   [hasAddressKey |-> TRUE, address |-> StrCell(<<>>),
    lat |-> StrCell(<<"x">>), lon |-> NumCell(StoredLon), rest |-> StrCell(<<"x">>)],
   [hasAddressKey |-> FALSE, address |-> Undef,
    lat |-> NumCell(0), lon |-> NumCell(StoredLon), rest |-> StrCell(<<"n">>)]}

\* a row with an address and a latitude held as text
AddressedGeoRow ==
  [hasAddressKey |-> TRUE, address |-> StrCell(<<"a">>),
   lat |-> StrCell(<<"0">>), lon |-> NumCell(StoredLon), rest |-> StrCell(<<"a">>)]

GeoInputs ==
  SeqsUpTo(GeoRowValues, MaxRows)
    \cup {<<AddressedGeoRow>> \o l : l \in SeqsUpTo(GeoRowValues, 1)}
    \cup {Padding \o l : l \in {x \in SeqsUpTo(GeoRowValues, 2) : Len(x) = 2}}
    \cup {Padding \o <<AddressedGeoRow, AddressedGeoRow>>}

ServeIdle ==
  /\ rows = <<>> /\ sPc = "idle" /\ batchStart = 0 /\ attempt = 0
  /\ requestBody = <<>> /\ requests = 0 /\ outcomes = <<>> /\ waitTime = 0
  /\ parsedCount = -1
  /\ correctedAddresses = <<>> /\ correctedRows = <<>>
  /\ ownCorrection = <<>> /\ response = 0
  /\ batchResults = <<>> /\ pendingGeo = {} /\ geoOutcome = <<>>

Init ==
  /\ rows \in ServeInputs
  /\ sPc = "batch"
  /\ batchStart = 0
  /\ attempt = 0
  /\ requestBody = <<>>
  /\ requests = 0
  /\ outcomes = <<>>
  /\ waitTime = 0
  /\ parsedCount = -1
  /\ correctedAddresses = <<>>
  /\ correctedRows = <<>>
  /\ ownCorrection = <<>>
  /\ response = 0
  /\ batchResults = <<>>
  /\ pendingGeo = {}
  /\ geoOutcome = <<>>
  /\ FileIdle
  /\ NormIdle
  /\ ResolveIdle
  /\ MatchIdle
  /\ ExportIdle

\* head of the batch loop: extract the addresses of the next batch
StartBatch ==
  /\ sPc = "batch"
  /\ batchStart < Len(rows)
  /\ attempt' = 0
  /\ requests' = 0
  /\ outcomes' = <<>>
  /\ requestBody' = <<>>
  /\ parsedCount' = -1
  /\ IF Len(Addresses(Batch)) > 0
     THEN sPc' = "fetch" /\ UNCHANGED correctedAddresses
     ELSE sPc' = "map" /\ correctedAddresses' = <<>>
  /\ UNCHANGED <<rows, batchStart, waitTime, correctedRows, ownCorrection, response>>
  /\ UNCHANGED <<geoVars, fileVars, normVars, resolveVars, matchVars, exportVars>>

\* the fetch of one attempt is issued and its reply (or failure) arrives
Fetched(kind) ==
  /\ sPc = "fetch"
  /\ attempt < retries
  /\ requestBody' = NumberedList(Addresses(Batch))
  /\ requests' = requests + 1
  /\ outcomes' = Append(outcomes, kind)

ReturnFromCorrection(value) ==
  /\ correctedAddresses' = value
  /\ sPc' = "map"

FetchRateLimited ==
  /\ Fetched("429")
  /\ waitTime' = (2 ^ attempt) * 500
  /\ sPc' = "backoff"
  /\ UNCHANGED <<rows, batchStart, attempt, parsedCount, correctedAddresses,
                 correctedRows, ownCorrection, response>>
  /\ UNCHANGED <<geoVars, fileVars, normVars, resolveVars, matchVars, exportVars>>

\* the back-off timer fires: continue
BackoffElapsed ==
  /\ sPc = "backoff"
  /\ attempt' = attempt + 1
  /\ waitTime' = 0
  /\ IF attempt + 1 < retries
     THEN sPc' = "fetch" /\ UNCHANGED correctedAddresses
     ELSE ReturnFromCorrection(Addresses(Batch))
  /\ UNCHANGED <<rows, batchStart, requestBody, requests, outcomes, parsedCount,
                 correctedRows, ownCorrection, response>>
  /\ UNCHANGED <<geoVars, fileVars, normVars, resolveVars, matchVars, exportVars>>

FetchNotOk ==
  /\ Fetched("notok")
  /\ ReturnFromCorrection(Addresses(Batch))
  /\ UNCHANGED <<rows, batchStart, attempt, waitTime, parsedCount, correctedRows,
                 ownCorrection, response>>
  /\ UNCHANGED <<geoVars, fileVars, normVars, resolveVars, matchVars, exportVars>>

\* variant of FetchThrows that gives up on the first error
FetchThrows_ReturnsAtOnce ==
  /\ Fetched("throw")
  /\ ReturnFromCorrection(Addresses(Batch))
  /\ UNCHANGED <<rows, batchStart, attempt, waitTime, parsedCount, correctedRows,
                 ownCorrection, response>>
  /\ UNCHANGED <<geoVars, fileVars, normVars, resolveVars, matchVars, exportVars>>

\* fetch rejects, response.json() throws or the content is not a string
FetchThrows ==
  /\ Fetched("throw")
  /\ IF attempt = retries - 1
     THEN ReturnFromCorrection(Addresses(Batch)) /\ UNCHANGED attempt
     ELSE /\ attempt' = attempt + 1
          /\ IF attempt + 1 < retries
             THEN sPc' = "fetch" /\ UNCHANGED correctedAddresses
             ELSE ReturnFromCorrection(Addresses(Batch))
  /\ UNCHANGED <<rows, batchStart, waitTime, parsedCount, correctedRows,
                 ownCorrection, response>>
  /\ UNCHANGED <<geoVars, fileVars, normVars, resolveVars, matchVars, exportVars>>

FetchContent ==
  \E content \in Texts :
    /\ Fetched(IF Trim(content) = <<>> THEN "empty" ELSE "text")
    /\ ReturnFromCorrection(CorrectionFromContent(Addresses(Batch), content))
    /\ parsedCount' = Len(ParseNumberedList(Trim(content)))
    /\ UNCHANGED <<rows, batchStart, attempt, waitTime, correctedRows,
                   ownCorrection, response>>
    /\ UNCHANGED <<geoVars, fileVars, normVars, resolveVars, matchVars, exportVars>>

\* variant of PushBatch that goes on to the next batch without the delay
PushBatch_NoDelay(batchRows) ==
  /\ correctedRows' = correctedRows \o batchRows
  /\ sPc' = "batch"
  /\ batchStart' = batchStart + AI_BATCH_SIZE

\* correctedRows.push(...batchResults) and the step of the batch loop
PushBatch(batchRows) ==
  /\ correctedRows' = correctedRows \o batchRows
  /\ IF BatchEnd < Len(rows)
     THEN sPc' = "delay" /\ UNCHANGED batchStart
     ELSE sPc' = "batch" /\ batchStart' = batchStart + AI_BATCH_SIZE

\* Promise.all over the rows of the batch: every callback runs up to its
\* first await, so the geocoding requests of all rows with numeric
\* coordinates are sent before any reply is read.  Without such a row the
\* promise resolves at once.
MapRows ==
  /\ sPc = "map"
  /\ LET updated == [i \in 1..Len(Batch) |->
                       MapRow(Batch[i], i, correctedAddresses)]
         waiting == {i \in 1..Len(Batch) : AwaitsGeocoding(Batch[i])}
     IN /\ pendingGeo' = waiting
        /\ IF waiting = {}
           THEN PushBatch(updated) /\ batchResults' = <<>>
           ELSE /\ batchResults' = updated
                /\ sPc' = "geocode"
                /\ UNCHANGED <<correctedRows, batchStart>>
  /\ geoOutcome' = geoOutcome \o [i \in 1..Len(Batch) |-> NoGeocoding]
  /\ ownCorrection' = ownCorrection \o
       [i \in 1..Len(Batch) |->
          IF OriginalAddress(Batch[i]) # <<>>
          THEN [sent |-> TRUE,
                text |-> correctedAddresses[SentPosition(Batch, i)]]
          ELSE [sent |-> FALSE, text |-> <<>>]]
  /\ UNCHANGED <<rows, attempt, requestBody, requests, outcomes, waitTime,
                 parsedCount, correctedAddresses, response>>
  /\ UNCHANGED <<fileVars, normVars, resolveVars, matchVars, exportVars>>

\* the reply to the geocoding request of one row arrives and its callback
\* runs to its end; the last callback resolves Promise.all
GeocodeSettles ==
  /\ sPc = "geocode"
  /\ \E i \in pendingGeo :
       \E reply \in GeocodeReplies(ParseFloat(Batch[i].lat)[1],
                                   ParseFloat(Batch[i].lon)[1]) :
         LET settled == [batchResults EXCEPT
                           ![i] = ValidateCoordinates(Batch[i], @,
                                                      geocodeAddress(reply))]
         IN /\ pendingGeo' = pendingGeo \ {i}
            /\ geoOutcome' = [geoOutcome EXCEPT ![batchStart + i] = reply]
            /\ IF pendingGeo = {i}
               THEN PushBatch(settled) /\ batchResults' = <<>>
               ELSE /\ batchResults' = settled
                    /\ UNCHANGED <<sPc, batchStart, correctedRows>>
  /\ UNCHANGED <<rows, attempt, requestBody, requests, outcomes, waitTime,
                 parsedCount, correctedAddresses, ownCorrection, response>>
  /\ UNCHANGED <<fileVars, normVars, resolveVars, matchVars, exportVars>>

\* the inter-batch timer of BATCH_DELAY ms fires
BatchDelayElapsed ==
  /\ sPc = "delay"
  /\ batchStart' = batchStart + AI_BATCH_SIZE
  /\ sPc' = "batch"
  /\ UNCHANGED <<rows, attempt, requestBody, requests, outcomes, waitTime,
                 parsedCount, correctedAddresses, correctedRows, ownCorrection,
                 response>>
  /\ UNCHANGED <<geoVars, fileVars, normVars, resolveVars, matchVars, exportVars>>

Respond ==
  /\ sPc = "batch"
  /\ batchStart >= Len(rows)
  /\ response' = 200
  /\ sPc' = "done"
  /\ UNCHANGED <<rows, batchStart, attempt, requestBody, requests, outcomes,
                 waitTime, parsedCount, correctedAddresses, correctedRows,
                 ownCorrection>>
  /\ UNCHANGED <<geoVars, fileVars, normVars, resolveVars, matchVars, exportVars>>

Next ==
  \/ StartBatch
  \/ FetchRateLimited
  \/ BackoffElapsed
  \/ FetchNotOk
  \/ FetchThrows
  \/ FetchContent
  \/ MapRows
  \/ BatchDelayElapsed
  \/ Respond

Spec == Init /\ [][Next]_vars

\* the same handler on rows that carry coordinates
InitGeo ==
  /\ rows \in GeoInputs
  /\ sPc = "batch"
  /\ batchStart = 0
  /\ attempt = 0
  /\ requestBody = <<>>
  /\ requests = 0
  /\ outcomes = <<>>
  /\ waitTime = 0
  /\ parsedCount = -1
  /\ correctedAddresses = <<>>
  /\ correctedRows = <<>>
  /\ ownCorrection = <<>>
  /\ response = 0
  /\ batchResults = <<>>
  /\ pendingGeo = {}
  /\ geoOutcome = <<>>
  /\ FileIdle
  /\ NormIdle
  /\ ResolveIdle
  /\ MatchIdle
  /\ ExportIdle

NextGeo ==
  \/ StartBatch
  \/ FetchRateLimited
  \/ BackoffElapsed
  \/ FetchNotOk
  \/ FetchThrows
  \/ FetchContent
  \/ MapRows
  \/ GeocodeSettles
  \/ BatchDelayElapsed
  \/ Respond

SpecGeo == InitGeo /\ [][NextGeo]_vars

\* ------------------------------------------------------------------------
\* normalizeAddress (Index page)
\* ------------------------------------------------------------------------
\* cleaned.match(/^(.+?[,\s]+\d+)/): length of match[1], 0 when there is no
\* match.  The lazy .+? takes the fewest characters p >= 1 after which a run
\* of separators directly followed by a digit starts; \d+ is greedy.
StreetNumberMatch(cleaned) ==
  LET P == {p \in 1..Len(cleaned) :
              /\ \A j \in 1..p : cleaned[j] # "\n"
              /\ RunFrom(cleaned, p + 1, SepChars) >= 1
              /\ RunFrom(cleaned, p + 1 + RunFrom(cleaned, p + 1, SepChars),
                         Digits) >= 1}
  IN IF P = {} THEN 0
     ELSE LET p == Min(P)
              q == RunFrom(cleaned, p + 1, SepChars)
              d == RunFrom(cleaned, p + 1 + q, Digits)
          IN p + q + d

normalizeAddress(address) ==
  LET cleaned == CollapseSpaces(Trim(address))
      m == StreetNumberMatch(cleaned)
  IN IF m > 0 THEN Trim(SubSeq(cleaned, 1, m)) ELSE cleaned

\* ------------------------------------------------------------------------
\* processFile (Index page)
\* ------------------------------------------------------------------------
MaxSheetRows == 3

UpperCase == <<"A", "B", "C", "D", "E", "F", "G", "H", "I", "J", "K", "L", "M",
               "N", "O", "P", "Q", "R", "S", "T", "U", "V", "W", "X", "Y", "Z">>
LowerCase == <<"a", "b", "c", "d", "e", "f", "g", "h", "i", "j", "k", "l", "m",
               "n", "o", "p", "q", "r", "s", "t", "u", "v", "w", "x", "y", "z">>

\* key.toLowerCase()
ToLower(s) ==
  [i \in 1..Len(s) |->
     IF \E k \in 1..26 : UpperCase[k] = s[i]
     THEN LowerCase[CHOOSE k \in 1..26 : UpperCase[k] = s[i]]
     ELSE s[i]]

\* s.includes(sub)
Includes(s, sub) ==
  \E i \in 0..(Len(s) - Len(sub)) : SubSeq(s, i + 1, i + Len(sub)) = sub

AddressSynonyms ==
  {<<"e", "n", "d", "e", "r", "e", "c", "o">>, <<"e", "n", "d", "e", "r", "e", "ç", "o">>,
   <<"a", "d", "d", "r", "e", "s", "s">>, <<"r", "u", "a">>}
SequenceSynonyms ==
  {<<"s", "e", "q", "u", "e", "n", "c", "e">>, <<"s", "e", "q", "u", "e", "n", "c", "i", "a">>}

\* the columns of the sheet, in sheet order
AddressHeader == <<"D", "e", "s", "t", "i", "n", "a", "t", "i", "o", "n", " ", "A", "d", "d", "r", "e", "s", "s">>
SequenceHeader == <<"S", "e", "q", "u", "e", "n", "c", "e">>
Headers == <<AddressHeader, SequenceHeader>>

\* row[key]
Cell(row, key) ==
  IF key = AddressHeader THEN row.address
  ELSE IF key = SequenceHeader THEN row.sequence
  ELSE Undef

\* Object.keys(row): sheet_to_json leaves empty cells out of the row object
Keys(row) == SelectSeq(Headers, LAMBDA h : Cell(row, h) # Undef)

\* Object.keys(jsonData[0] || {}).find(...), <<>> for undefined
FindColumn(data, synonyms) ==
  LET keys == IF Len(data) > 0 THEN Keys(data[1]) ELSE <<>>
      hits == {i \in 1..Len(keys) :
                 \E syn \in synonyms : Includes(ToLower(keys[i]), syn)}
  IN IF hits = {} THEN <<>> ELSE keys[Min(hits)]

\* property names every object literal inherits from Object.prototype
ProtoKeys ==
  {<<"c", "o", "n", "s", "t", "r", "u", "c", "t", "o", "r">>,
   <<"t", "o", "S", "t", "r", "i", "n", "g">>}

\* address cells of the uploaded sheets
SheetAddresses ==
  {Undef,
   StrCell(<<"a", ",", " ", "1">>),
   StrCell(<<"a", ",", " ", "1", ",", " ", "b">>),
   StrCell(<<"7">>),
   StrCell(<<"c", "o", "n", "s", "t", "r", "u", "c", "t", "o", "r">>)}

\* jsonData.forEach(row => ...) over rows i..Len(data); g holds the own
\* properties of `grouped` as [key, rows], rows being indices into jsonData.
\* grouped[key] of an inherited property is truthy and has no push method:
\* the callback throws a TypeError and forEach stops.
RECURSIVE GroupFrom(_, _, _, _)
GroupFrom(data, addressColumn, i, g) ==
  IF i > Len(data) THEN [grouped |-> g, threw |-> FALSE]
  ELSE LET fullAddress == Trim(StringOrEmpty(Cell(data[i], addressColumn)))
           normalizedAddress == normalizeAddress(fullAddress)
           own == {k \in 1..Len(g) : g[k].key = normalizedAddress}
       IN IF own # {}
          THEN GroupFrom(data, addressColumn, i + 1,
                 [g EXCEPT ![CHOOSE k \in own : TRUE].rows = Append(@, i)])
          ELSE IF normalizedAddress \in ProtoKeys
          THEN [grouped |-> g, threw |-> TRUE]
          ELSE GroupFrom(data, addressColumn, i + 1,
                 Append(g, [key |-> normalizedAddress, rows |-> <<i>>]))


\* a < b for canonical decimal strings (no leading zero)
DecimalLess(a, b) ==
  \/ Len(a) < Len(b)
  \/ /\ Len(a) = Len(b)
     /\ \E i \in 1..Len(a) :
          /\ SubSeq(a, 1, i - 1) = SubSeq(b, 1, i - 1)
          /\ DigitValue(a[i]) < DigitValue(b[i])

\* canonical array index (below 2^32 - 1): such property names are
\* enumerated first, in ascending numeric order
IsArrayIndex(key) ==
  /\ Len(key) >= 1
  /\ \A i \in 1..Len(key) : key[i] \in Digits
  /\ (Len(key) = 1 \/ key[1] # "0")
  /\ DecimalLess(key, <<"4", "2", "9", "4", "9", "6", "7", "2", "9", "5">>)

RECURSIVE AscendingEntries(_, _)
AscendingEntries(g, S) ==
  IF S = {} THEN <<>>
  ELSE LET m == CHOOSE x \in S :
                  \A y \in S : x = y \/ DecimalLess(g[x].key, g[y].key)
       IN <<g[m]>> \o AscendingEntries(g, S \ {m})

\* Object.entries(grouped)
ObjectEntries(g) ==
  AscendingEntries(g, {k \in 1..Len(g) : IsArrayIndex(g[k].key)})
    \o SelectSeq(g, LAMBDA e : ~IsArrayIndex(e.key))

\* list.join(sep)
RECURSIVE Join(_, _)
Join(list, sep) ==
  IF list = <<>> THEN <<>>
  ELSE IF Len(list) = 1 THEN list[1]
  ELSE list[1] \o sep \o Join(Tail(list), sep)

\* rows.map(r => String(r[sequenceColumn] || ''))
\*     .filter(s => s && s.trim() !== '').join('; ')
MergedSequences(data, rowIdx, sequenceColumn) ==
  Join(SelectSeq([k \in 1..Len(rowIdx) |->
                    StringOrEmpty(Cell(data[rowIdx[k]], sequenceColumn))],
                 LAMBDA x : x # <<>> /\ Trim(x) # <<>>),
       <<";", " ">>)

\* the callback of Object.entries(grouped).map
MergedRow(data, entry, sequenceColumn) ==
  LET firstRow == data[entry.rows[1]]
  IN IF sequenceColumn # <<>>
     THEN [firstRow EXCEPT
             !.sequence = StrCell(MergedSequences(data, entry.rows, sequenceColumn))]
     ELSE firstRow

MergedRows(data, g, sequenceColumn) ==
  LET entries == ObjectEntries(g)
  IN [k \in 1..Len(entries) |-> MergedRow(data, entries[k], sequenceColumn)]

\* cells of the uploaded sheets
SequenceKinds == {"id", "blank", "zero"}
SequenceCell(kind, i) ==
  IF kind = "id" THEN StrCell(<<"S">> \o NatToStr(i))
  ELSE IF kind = "zero" THEN NumCell(0)
  ELSE Undef

\* rows that stop processFile (no address cell, inherited key) and rows
\* with a bare number as address come with one kind of sequence cell only;
\* the numeric sequence cell goes with one address
SheetRowKinds ==
  {ak \in SheetAddresses \X SequenceKinds :
     /\ ak[1] \in {Undef, StrCell(<<"7">>),
                   StrCell(<<"c", "o", "n", "s", "t", "r", "u", "c", "t", "o", "r">>)}
          => ak[2] = "id"
     /\ ak[2] = "zero" => ak[1] = StrCell(<<"a", ",", " ", "1">>)}

Sheets ==
  UNION {{[i \in 1..n |-> [address |-> f[i][1],
                           sequence |-> SequenceCell(f[i][2], i)]] :
            f \in [1..n -> SheetRowKinds]} :
         n \in 0..MaxSheetRows}

\* what the correct-addresses function answers with for `rows`
CorrectedByService(rs) ==
  [i \in 1..Len(rs) |-> [rs[i] EXCEPT !.address = StrCell(<<"x">>)]]

InitFile ==
  /\ jsonData \in Sheets
  /\ fPc = "idle" /\ currentStep = 1
  /\ isProcessing = FALSE /\ progress = 0 /\ grouped = <<>>
  /\ results = <<>> /\ processedData = <<>> /\ timerPending = FALSE
  /\ correctionPending = FALSE /\ raceWinner = "none"
  /\ totalSequencesCount = 0 /\ fError = "none"
  /\ ServeIdle
  /\ NormIdle
  /\ ResolveIdle
  /\ MatchIdle
  /\ ExportIdle

\* the catch block of processFile
Caught(error) ==
  /\ fError' = error
  /\ currentStep' = 1
  /\ isProcessing' = FALSE
  /\ fPc' = "failed"

\* processFile up to `await file.arrayBuffer()`
ProcessFileStart ==
  /\ fPc = "idle"
  /\ currentStep = 1
  /\ currentStep' = 2
  /\ isProcessing' = TRUE
  /\ progress' = 10
  /\ fPc' = "reading"
  /\ UNCHANGED <<jsonData, grouped, results, processedData, timerPending,
                 correctionPending, raceWinner, totalSequencesCount, fError>>
  /\ UNCHANGED <<serveVars, normVars, resolveVars, matchVars, exportVars>>

\* arrayBuffer() rejects or XLSX.read throws
FileUnreadable ==
  /\ fPc = "reading"
  /\ Caught("read")
  /\ UNCHANGED <<jsonData, progress, grouped, results, processedData,
                 timerPending, correctionPending, raceWinner,
                 totalSequencesCount>>
  /\ UNCHANGED <<serveVars, normVars, resolveVars, matchVars, exportVars>>

\* the sheet is read; an empty sheet throws
FileRead ==
  /\ fPc = "reading"
  /\ IF Len(jsonData) = 0
     THEN Caught("empty") /\ progress' = 30
     ELSE /\ progress' = 50
          /\ fPc' = "identifying"
          /\ UNCHANGED <<currentStep, isProcessing, fError>>
  /\ UNCHANGED <<jsonData, grouped, results, processedData, timerPending,
                 correctionPending, raceWinner, totalSequencesCount>>
  /\ UNCHANGED <<serveVars, normVars, resolveVars, matchVars, exportVars>>

\* variant of GroupAndInvoke that goes on without an address column
GroupAndInvoke_NoColumnCheck ==
  /\ fPc = "identifying"
  /\ progress' = 70
  /\ LET addressColumn == FindColumn(jsonData, AddressSynonyms)
         sequenceColumn == FindColumn(jsonData, SequenceSynonyms)
         g == GroupFrom(jsonData, addressColumn, 1, <<>>)
     IN IF g.threw
        THEN /\ Caught("TypeError")
             /\ grouped' = g.grouped
             /\ UNCHANGED <<results, timerPending, correctionPending>>
        ELSE /\ grouped' = g.grouped
             /\ results' = MergedRows(jsonData, g.grouped, sequenceColumn)
             /\ timerPending' = TRUE
             /\ correctionPending' = TRUE
             /\ fPc' = "racing"
             /\ UNCHANGED <<currentStep, isProcessing, fError>>
  /\ UNCHANGED <<jsonData, processedData, raceWinner, totalSequencesCount>>
  /\ UNCHANGED <<serveVars, normVars, resolveVars, matchVars, exportVars>>

\* after the 500 ms pause: find the columns, group, merge, start the timer
\* and invoke correct-addresses
GroupAndInvoke ==
  /\ fPc = "identifying"
  /\ progress' = 70
  /\ LET addressColumn == FindColumn(jsonData, AddressSynonyms)
         sequenceColumn == FindColumn(jsonData, SequenceSynonyms)
         g == GroupFrom(jsonData, addressColumn, 1, <<>>)
     IN IF addressColumn = <<>>
        THEN /\ Caught("noAddressColumn")
             /\ UNCHANGED <<grouped, results, timerPending, correctionPending>>
        ELSE IF g.threw
        THEN /\ Caught("TypeError")
             /\ grouped' = g.grouped
             /\ UNCHANGED <<results, timerPending, correctionPending>>
        ELSE /\ grouped' = g.grouped
             /\ results' = MergedRows(jsonData, g.grouped, sequenceColumn)
             /\ timerPending' = TRUE
             /\ correctionPending' = TRUE
             /\ fPc' = "racing"
             /\ UNCHANGED <<currentStep, isProcessing, fError>>
  /\ UNCHANGED <<jsonData, processedData, raceWinner, totalSequencesCount>>
  /\ UNCHANGED <<serveVars, normVars, resolveVars, matchVars, exportVars>>

\* the statements after the race: setProgress(90) and the 500 ms pause
AfterRace(winner, data) ==
  /\ raceWinner' = winner
  /\ processedData' = data
  /\ progress' = 90
  /\ fPc' = "finalizing"

\* variant of CorrectionSettles that uses a reply that lost the race
CorrectionSettles_AppliesLate ==
  /\ correctionPending
  /\ correctionPending' = FALSE
  /\ \E reply \in {[error |-> TRUE, data |-> <<>>],
                   [error |-> FALSE, data |-> <<>>],
                   [error |-> FALSE, data |-> CorrectedByService(results)]} :
       IF fPc = "racing"
       THEN IF reply.error
            THEN AfterRace("error", results)
            ELSE AfterRace("corrected",
                           IF reply.data # <<>> THEN reply.data ELSE results)
       ELSE /\ processedData' = IF reply.data # <<>> THEN reply.data ELSE results
            /\ UNCHANGED <<raceWinner, progress, fPc>>
  /\ UNCHANGED <<jsonData, currentStep, isProcessing, grouped, results,
                 timerPending, totalSequencesCount, fError>>
  /\ UNCHANGED <<serveVars, normVars, resolveVars, matchVars, exportVars>>

\* supabase.functions.invoke resolves with {data, error}; data <<>> stands
\* for a reply without correctedRows
CorrectionSettles ==
  /\ correctionPending
  /\ correctionPending' = FALSE
  /\ \E reply \in {[error |-> TRUE, data |-> <<>>],
                   [error |-> FALSE, data |-> <<>>],
                   [error |-> FALSE, data |-> CorrectedByService(results)]} :
       IF fPc = "racing"
       THEN IF reply.error
            THEN AfterRace("error", results)
            ELSE AfterRace("corrected",
                           IF reply.data # <<>> THEN reply.data ELSE results)
       ELSE UNCHANGED <<raceWinner, processedData, progress, fPc>>
  /\ UNCHANGED <<jsonData, currentStep, isProcessing, grouped, results,
                 timerPending, totalSequencesCount, fError>>
  /\ UNCHANGED <<serveVars, normVars, resolveVars, matchVars, exportVars>>

\* supabase.functions.invoke rejects
CorrectionRejects ==
  /\ correctionPending
  /\ correctionPending' = FALSE
  /\ IF fPc = "racing"
     THEN AfterRace("rejected", results)
     ELSE UNCHANGED <<raceWinner, processedData, progress, fPc>>
  /\ UNCHANGED <<jsonData, currentStep, isProcessing, grouped, results,
                 timerPending, totalSequencesCount, fError>>
  /\ UNCHANGED <<serveVars, normVars, resolveVars, matchVars, exportVars>>

\* variant of TimeoutFires whose rejection does not end the race
TimeoutFires_Unraced ==
  /\ timerPending
  /\ timerPending' = FALSE
  /\ UNCHANGED <<raceWinner, processedData, progress, fPc>>
  /\ UNCHANGED <<jsonData, currentStep, isProcessing, grouped, results,
                 correctionPending, totalSequencesCount, fError>>
  /\ UNCHANGED <<serveVars, normVars, resolveVars, matchVars, exportVars>>

\* the 120000 ms timer fires and rejects timeoutPromise
TimeoutFires ==
  /\ timerPending
  /\ timerPending' = FALSE
  /\ IF fPc = "racing"
     THEN AfterRace("timeout", results)
     ELSE UNCHANGED <<raceWinner, processedData, progress, fPc>>
  /\ UNCHANGED <<jsonData, currentStep, isProcessing, grouped, results,
                 correctionPending, totalSequencesCount, fError>>
  /\ UNCHANGED <<serveVars, normVars, resolveVars, matchVars, exportVars>>

\* variant of Finalize that stores the number of merged rows
Finalize_CountsMergedRows ==
  /\ fPc = "finalizing"
  /\ totalSequencesCount' = Len(results)
  /\ progress' = 100
  /\ isProcessing' = FALSE
  /\ fPc' = "showing"
  /\ UNCHANGED <<jsonData, currentStep, grouped, results, processedData,
                 timerPending, correctionPending, raceWinner, fError>>
  /\ UNCHANGED <<serveVars, normVars, resolveVars, matchVars, exportVars>>

\* after the 500 ms pause: store the total, progress 100
Finalize ==
  /\ fPc = "finalizing"
  /\ totalSequencesCount' = Len(jsonData)
  /\ progress' = 100
  /\ isProcessing' = FALSE
  /\ fPc' = "showing"
  /\ UNCHANGED <<jsonData, currentStep, grouped, results, processedData,
                 timerPending, correctionPending, raceWinner, fError>>
  /\ UNCHANGED <<serveVars, normVars, resolveVars, matchVars, exportVars>>

\* after the 1000 ms pause: the results step
ShowResults ==
  /\ fPc = "showing"
  /\ currentStep' = 3
  /\ fPc' = "done"
  /\ UNCHANGED <<jsonData, isProcessing, progress, grouped, results,
                 processedData, timerPending, correctionPending, raceWinner,
                 totalSequencesCount, fError>>
  /\ UNCHANGED <<serveVars, normVars, resolveVars, matchVars, exportVars>>

NextFile ==
  \/ ProcessFileStart
  \/ FileUnreadable
  \/ FileRead
  \/ GroupAndInvoke
  \/ CorrectionSettles
  \/ CorrectionRejects
  \/ TimeoutFires
  \/ Finalize
  \/ ShowResults

SpecFile == InitFile /\ [][NextFile]_vars

\* GroupAndInvoke as a step of fPc: the 500 ms pause after the reading
\* ends and processFile runs on to the race or into its catch block
PauseElapsed == fPc = "identifying" /\ fPc' \in {"racing", "failed"}

\* the reading of the file settles and the timers of processFile fire; the
\* user need not start a run and the correction call need not settle
SpecFileFair ==
  /\ InitFile
  /\ [][NextFile]_vars
  /\ WF_vars(FileRead \/ FileUnreadable)
  /\ WF_fPc(PauseElapsed)
  /\ WF_vars(TimeoutFires)
  /\ WF_vars(Finalize)
  /\ WF_vars(ShowResults)

\* ------------------------------------------------------------------------
\* Index page: credits, handleExport and the realtime updates (SpecExport)
\* ------------------------------------------------------------------------
MaxCredits == 2
MaxExports == 2

\* the page of a signed-in user whose credits were loaded by
\* checkAdminStatus
InitExport ==
  /\ ledger \in 0..MaxCredits
  /\ credits = ledger
  /\ notifications = <<>>
  /\ ePc = "idle"
  /\ creditsAtCall = 0
  /\ rpcReply = "none"
  /\ showBuyCredits = FALSE
  /\ exports = <<>>
  /\ ServeIdle
  /\ FileIdle
  /\ NormIdle
  /\ ResolveIdle
  /\ MatchIdle

\* the history record of the running handleExport call, updated
Running(field, value) ==
  [exports EXCEPT ![Len(exports)] = [@ EXCEPT ![field] = value]]

\* variant of HandleExport that calls deduct_credit whatever the balance
HandleExport_NoBalanceCheck ==
  /\ ePc = "idle"
  /\ Len(exports) < MaxExports
  /\ exports' = Append(exports, [creditsAtCall |-> credits, reply |-> "none",
                                 deducted |-> 0, file |-> FALSE])
  /\ ePc' = "rpc"
  /\ creditsAtCall' = credits
  /\ UNCHANGED <<showBuyCredits, ledger, credits, notifications, rpcReply>>
  /\ UNCHANGED <<serveVars, fileVars, normVars, resolveVars, matchVars>>

\* handleExport up to the deduct_credit call: without a credit it opens the
\* purchase dialog and returns
HandleExport ==
  /\ ePc = "idle"
  /\ Len(exports) < MaxExports
  /\ exports' = Append(exports, [creditsAtCall |-> credits, reply |-> "none",
                                 deducted |-> 0, file |-> FALSE])
  /\ IF credits < 1
     THEN /\ showBuyCredits' = TRUE
          /\ UNCHANGED <<ePc, creditsAtCall>>
     ELSE /\ ePc' = "rpc"
          /\ creditsAtCall' = credits
          /\ UNCHANGED showBuyCredits
  /\ UNCHANGED <<ledger, credits, notifications, rpcReply>>
  /\ UNCHANGED <<serveVars, fileVars, normVars, resolveVars, matchVars>>

\* the profile UPDATE that the database publishes to the page
Published(newCredits) == Append(notifications, newCredits)

\* deduct_credit on the server: takes one credit atomically when there is
\* one, and reports failure otherwise or when the call errors
DeductCredit ==
  /\ ePc = "rpc"
  /\ \E error \in BOOLEAN :
       IF ledger >= 1 /\ ~error
       THEN /\ ledger' = ledger - 1
            /\ notifications' = Published(ledger - 1)
            /\ rpcReply' = "success"
            /\ exports' = Running("deducted", 1)
       ELSE /\ rpcReply' = "failure"
            /\ UNCHANGED <<ledger, notifications, exports>>
  /\ ePc' = "reply"
  /\ UNCHANGED <<credits, creditsAtCall, showBuyCredits>>
  /\ UNCHANGED <<serveVars, fileVars, normVars, resolveVars, matchVars>>

\* handleExport after the await of deduct_credit: return on failure,
\* setCredits(prev => prev - 1) on success
RpcReturns ==
  /\ ePc = "reply"
  /\ IF rpcReply = "success"
     THEN /\ credits' = credits - 1
          /\ ePc' = "download"
     ELSE /\ ePc' = "idle"
          /\ UNCHANGED credits
  /\ exports' = Running("reply", rpcReply)
  /\ rpcReply' = "none"
  /\ UNCHANGED <<ledger, notifications, creditsAtCall, showBuyCredits>>
  /\ UNCHANGED <<serveVars, fileVars, normVars, resolveVars, matchVars>>

\* handleExport after the await of insertDownload: the file is written,
\* unless insertDownload rejected
WriteFile ==
  /\ ePc = "download"
  /\ \E tracked \in BOOLEAN : exports' = Running("file", tracked)
  /\ ePc' = "idle"
  /\ UNCHANGED <<ledger, credits, notifications, creditsAtCall, rpcReply,
                 showBuyCredits>>
  /\ UNCHANGED <<serveVars, fileVars, normVars, resolveVars, matchVars>>

\* the postgres_changes handler: setCredits(payload.new.credits)
CreditsUpdated ==
  /\ notifications # <<>>
  /\ credits' = Head(notifications)
  /\ notifications' = Tail(notifications)
  /\ UNCHANGED <<ledger, ePc, creditsAtCall, rpcReply, showBuyCredits, exports>>
  /\ UNCHANGED <<serveVars, fileVars, normVars, resolveVars, matchVars>>

\* an administrator adds or removes credits of the user
handleUpdateCredits ==
  /\ Len(notifications) < MaxCredits
  /\ \E amount \in {1, 0 - 1} :
       /\ ledger + amount \in 0..MaxCredits
       /\ ledger' = ledger + amount
       /\ notifications' = Published(ledger + amount)
  /\ UNCHANGED <<credits, ePc, creditsAtCall, rpcReply, showBuyCredits, exports>>
  /\ UNCHANGED <<serveVars, fileVars, normVars, resolveVars, matchVars>>

NextExport ==
  \/ HandleExport
  \/ DeductCredit
  \/ RpcReturns
  \/ WriteFile
  \/ CreditsUpdated
  \/ handleUpdateCredits

SpecExport == InitExport /\ [][NextExport]_vars

\* ------------------------------------------------------------------------
\* normalizeAddress applied to pairs of addresses (SpecNorm)
\* ------------------------------------------------------------------------
MaxStreet == 3

\* street names: start with a letter, may contain a number ("Rua 7 ...")
StreetTexts ==
  {t \in SeqsUpTo({"a", "1", " "}, MaxStreet) :
     Len(t) >= 1 /\ t[1] = "a" /\ t[Len(t)] # " "}
StreetSeparators == {<<",", " ">>, <<" ">>}
HouseNumbers == {<<"1">>, <<"1", "0">>, <<"2">>}
Complements == {<<>>, <<",", " ", "b">>, <<",", " ", "b", " ", "2">>}

NormInputs ==
  [street : StreetTexts, sep : StreetSeparators,
   numA : HouseNumbers, numB : HouseNumbers,
   complA : Complements, complB : Complements]

\* arbitrary cell texts: letters, digits, commas and spaces in any order
MaxRaw == MaxStreet + 2
RawTexts == SeqsUpTo({"a", "1", ",", " "}, MaxRaw)
RawInputs ==
  [street : RawTexts, sep : {<<>>}, numA : {<<>>}, numB : {<<>>},
   complA : {<<>>}, complB : {<<>>}]

AddressA == nIn.street \o nIn.sep \o nIn.numA \o nIn.complA
AddressB == nIn.street \o nIn.sep \o nIn.numB \o nIn.complB

InitNorm ==
  /\ nIn \in NormInputs \cup RawInputs
  /\ nKeys = <<>>
  /\ nAgain = <<>>
  /\ ServeIdle
  /\ FileIdle
  /\ ResolveIdle
  /\ MatchIdle
  /\ ExportIdle

NormalizePair ==
  /\ nKeys = <<>>
  /\ nKeys' = <<normalizeAddress(AddressA), normalizeAddress(AddressB)>>
  /\ UNCHANGED <<nIn, nAgain>>
  /\ UNCHANGED <<serveVars, fileVars, resolveVars, matchVars, exportVars>>

\* a key is used as an address again (a merged row is grouped once more)
NormalizeAgain ==
  /\ nKeys # <<>>
  /\ nAgain = <<>>
  /\ nAgain' = <<normalizeAddress(nKeys[1]), normalizeAddress(nKeys[2])>>
  /\ UNCHANGED <<nIn, nKeys>>
  /\ UNCHANGED <<serveVars, fileVars, resolveVars, matchVars, exportVars>>

NextNorm ==
  \/ NormalizePair
  \/ NormalizeAgain

SpecNorm == InitNorm /\ [][NextNorm]_vars

\* ------------------------------------------------------------------------
\* batch-geocode edge function: text normalization and locality validation
\* ------------------------------------------------------------------------
RATE_LIMIT_DELAY == 1100

\* s.normalize("NFD").replace(/[\u0300-\u036f]/g, ""): a letter with a
\* diacritic becomes its base letter
Accented == <<"á", "à", "â", "ã", "é", "ê", "í", "ó", "ô", "õ", "ú", "ç", "É", "Ó">>
BaseLetter == <<"a", "a", "a", "a", "e", "e", "i", "o", "o", "o", "u", "c", "E", "O">>
StripAccents(s) ==
  [i \in 1..Len(s) |->
     IF \E k \in 1..Len(Accented) : Accented[k] = s[i]
     THEN BaseLetter[CHOOSE k \in 1..Len(Accented) : Accented[k] = s[i]]
     ELSE s[i]]

\* \w
IsWordChar(c) ==
  \/ \E k \in 1..26 : LowerCase[k] = c \/ UpperCase[k] = c
  \/ c \in Digits
  \/ c = "_"

\* \b between s[k] and s[k + 1] (k = 0: start, k = Len(s): end)
WordBoundary(s, k) ==
  (k >= 1 /\ IsWordChar(s[k])) # (k < Len(s) /\ IsWordChar(s[k + 1]))

\* the first alternative of `alts`, in regex order, that matches at i:
\* its text is at i, \b holds after it and, if `lead`, before it; 0 if none
AlternativeAt(s, i, alts, lead) ==
  LET hits == {a \in 1..Len(alts) :
                 /\ i + Len(alts[a]) - 1 <= Len(s)
                 /\ SubSeq(s, i, i + Len(alts[a]) - 1) = alts[a]
                 /\ lead => WordBoundary(s, i - 1)
                 /\ WordBoundary(s, i + Len(alts[a]) - 1)}
  IN IF hits = {} THEN 0 ELSE Min(hits)

\* s.replace(/(a1|a2|...)\b/g, repl), with a leading \b if `lead`
RECURSIVE ReplaceWords(_, _, _, _, _)
ReplaceWords(s, i, alts, lead, repl) ==
  IF i > Len(s) THEN <<>>
  ELSE LET a == AlternativeAt(s, i, alts, lead)
       IN IF a = 0
          THEN <<s[i]>> \o ReplaceWords(s, i + 1, alts, lead, repl)
          ELSE repl \o ReplaceWords(s, i + Len(alts[a]), alts, lead, repl)

Avenida == <<"a", "v", "e", "n", "i", "d", "a">>
Rua == <<"r", "u", "a">>
Rodovia == <<"r", "o", "d", "o", "v", "i", "a">>
NoisePhrases ==
  <<<<"p", "r", "o", "x", "i", "m", "o", " ", "a">>,
    <<"p", "r", "o", "x", "i", "m", "o">>,
    <<"p", "r", "ó", "x", "i", "m", "o", " ", "a">>,
    <<"p", "e", "r", "t", "o", " ", "d", "e">>,
    <<"e", "m", " ", "f", "r", "e", "n", "t", "e", " ", "a", "o">>,
    <<"a", "o", " ", "l", "a", "d", "o", " ", "d", "e">>>>

\* .replace(/[^\w\s\-\,]/g, "")
KeepWordsSpacesDashComma(s) ==
  SelectSeq(s, LAMBDA c : IsWordChar(c) \/ IsSpace(c) \/ c = "-" \/ c = ",")

\* normalizeText; undefined, null and "" are all written <<>>
normalizeText(s) ==
  IF s = <<>> THEN <<>>
  ELSE LET lower == ToLower(StripAccents(s))
           av == ReplaceWords(lower, 1, <<<<"a", "v">>, <<"a", "v", ".">>, Avenida>>, FALSE, Avenida)
           r == ReplaceWords(av, 1, <<<<"r">>, <<"r", ".">>>>, TRUE, Rua)
           rod == ReplaceWords(r, 1, <<<<"r", "o", "d">>, <<"r", "o", "d", ".">>, Rodovia>>, FALSE, Rodovia)
           quiet == ReplaceWords(rod, 1, NoisePhrases, TRUE, <<>>)
       IN Trim(CollapseSpaces(KeepWordsSpacesDashComma(quiet)))

\* a || b of two texts
OrElse(a, b) == IF a # <<>> THEN a ELSE b

\* addressMatchesExpected: whether the returned value is truthy.  town and
\* village are folded into city, neighbourhood into suburb.
cityMatches(nominatimAddress, expected) ==
  LET expCity == normalizeText(expected.cidade)
      gCity == normalizeText(OrElse(nominatimAddress.city, nominatimAddress.county))
  IN /\ expCity # <<>>
     /\ gCity # <<>>
     /\ (Includes(gCity, expCity) \/ Includes(expCity, gCity))

\* variant of stateMatches that compares the provider's state with the
\* expected one in both directions
stateMatches_ComparesBoth(nominatimAddress, expected) ==
  LET expState == normalizeText(expected.estado)
      gState == normalizeText(nominatimAddress.state)
  IN \/ expState = <<>>
     \/ /\ gState # <<>>
        /\ (Includes(gState, expState) \/ Includes(expState, gState))

\* the second operand of || is expState.includes(expState)
stateMatches(nominatimAddress, expected) ==
  LET expState == normalizeText(expected.estado)
      gState == normalizeText(nominatimAddress.state)
  IN \/ expState = <<>>
     \/ /\ gState # <<>>
        /\ (Includes(gState, expState) \/ Includes(expState, expState))

bairroMatches(nominatimAddress, expected) ==
  LET expBairro == normalizeText(expected.bairro)
      gBairro == normalizeText(nominatimAddress.suburb)
  IN IF expBairro = <<>> THEN TRUE
     ELSE IF gBairro # <<>>
     THEN Includes(gBairro, expBairro) \/ Includes(expBairro, expBairro)
     ELSE FALSE

addressMatchesExpected(nominatimAddress, expected) ==
  /\ cityMatches(nominatimAddress, expected)
  /\ stateMatches(nominatimAddress, expected)
  /\ bairroMatches(nominatimAddress, expected)

\* ------------------------------------------------------------------------
\* addressMatchesExpected on its own (SpecMatch)
\* ------------------------------------------------------------------------
\* what the provider reports: city, state and district names, or none
ProviderCities == {<<>>, <<"R", "i", "o">>, <<"N", "i", "t", "e", "r", "ó", "i">>}
ProviderStates == {<<>>, <<"R", "J">>, <<"S", "ã", "o", " ", "P", "a", "u", "l", "o">>, <<"R", "i", "o", " ", "d", "e", " ", "J", "a", "n", "e", "i", "r", "o">>}
ProviderSuburbs == {<<>>, <<"C", "e", "n", "t", "r", "o">>, <<"L", "a", "p", "a">>}
NominatimAddresses ==
  {[city |-> c, county |-> <<>>, suburb |-> b, state |-> e] :
     c \in ProviderCities, b \in ProviderSuburbs, e \in ProviderStates}

\* the hints of a row: each of cidade, estado and bairro given or not
ExpectedDetails ==
  {[cidade |-> c, estado |-> e, bairro |-> b] :
     c \in {<<>>, <<"R", "i", "o">>}, e \in {<<>>, <<"R", "J">>}, b \in {<<>>, <<"C", "e", "n", "t", "r", "o">>}}

InitMatch ==
  /\ mAddress \in NominatimAddresses
  /\ mExpected \in ExpectedDetails
  /\ mChecks = <<>>
  /\ ServeIdle
  /\ FileIdle
  /\ NormIdle
  /\ ResolveIdle
  /\ ExportIdle

ApplyMatch ==
  /\ mChecks = <<>>
  /\ mChecks' = <<[city |-> cityMatches(mAddress, mExpected),
                   state |-> stateMatches(mAddress, mExpected),
                   bairro |-> bairroMatches(mAddress, mExpected),
                   result |-> addressMatchesExpected(mAddress, mExpected)]>>
  /\ UNCHANGED <<mAddress, mExpected>>
  /\ UNCHANGED <<serveVars, fileVars, normVars, resolveVars, exportVars>>

NextMatch == ApplyMatch

SpecMatch == InitMatch /\ [][NextMatch]_vars

\* ------------------------------------------------------------------------
\* batch-geocode edge function: the handler (SpecResolve)
\* ------------------------------------------------------------------------
MaxAddresses == 2

\* input rows: without locality hints, with a city, with city, district and
\* state
RawAddress == <<"A", "v", ".", " ", "B", ",", " ", "1">>
NoHintsRow == [rawAddress |-> RawAddress, bairro |-> <<>>, cidade |-> <<>>, estado |-> <<>>]
CityRow == [rawAddress |-> RawAddress, bairro |-> <<>>, cidade |-> <<"R", "i", "o">>, estado |-> <<>>]
FullRow ==
  [rawAddress |-> RawAddress, bairro |-> <<"C", "e", "n", "t", "r", "o">>, cidade |-> <<"R", "i", "o">>,
   estado |-> <<"R", "J">>]
AddressRows == {NoHintsRow, CityRow, FullRow}

\* requests: every list of at most one row, and longer lists whose rows
\* after the first have a city only
AddressLists ==
  SeqsUpTo(AddressRows, 1)
    \cup {<<first>> \o [i \in 1..n |-> CityRow] :
            first \in AddressRows, n \in 1..(MaxAddresses - 1)}

\* json[0] of the provider: a place of the city the rows name, a place of
\* another city for which only the city is known, and a place without
\* address details
PlaceInCity ==
  [lat |-> "-22.90", lon |-> "-43.17", display_name |-> <<"S", "é", ",", " ", "R", "i", "o">>,
   address |-> <<[city |-> <<"R", "i", "o", " ", "d", "e", " ", "J", "a", "n", "e", "i", "r", "o">>,
                  county |-> <<>>, suburb |-> <<"S", "é">>,
                  state |-> <<"R", "i", "o", " ", "d", "e", " ", "J", "a", "n", "e", "i", "r", "o">>]>>]
PlaceElsewhere ==
  [lat |-> "-22.88", lon |-> "-43.10", display_name |-> <<"N", "i", "t", "e", "r", "ó", "i">>,
   address |-> <<[city |-> <<"N", "i", "t", "e", "r", "ó", "i">>, county |-> <<>>,
                  suburb |-> <<>>, state |-> <<>>]>>]
PlaceUnknown ==
  [lat |-> "-23.00", lon |-> "-43.30", display_name |-> <<"B">>, address |-> <<>>]
NominatimResults == {PlaceInCity, PlaceElsewhere, PlaceUnknown}

\* nominatimSearch: throws (fetch rejects, non-OK status, json() throws),
\* returns null (empty list) or returns json[0]
SearchOutcomes ==
  {[kind |-> "throw", result |-> <<>>], [kind |-> "null", result |-> <<>>]}
    \cup {[kind |-> "found", result |-> <<r>>] : r \in NominatimResults}

Row == addresses[rI + 1]

\* found.address || {}
Details(result) ==
  IF result.address # <<>> THEN result.address[1]
  ELSE [city |-> <<>>, county |-> <<>>, suburb |-> <<>>, state |-> <<>>]

Expected(row) == [bairro |-> row.bairro, cidade |-> row.cidade, estado |-> row.estado]

\* addressMatchesExpected(found.address || {}, {bairro, cidade, estado}) for
\* every result and row, worked out once
MatchTable ==
  {<<pair[1], pair[2],
     addressMatchesExpected(Details(pair[1]), Expected(pair[2]))>> :
     pair \in NominatimResults \X AddressRows}

Matches(result, row) == <<result, row, TRUE>> \in MatchTable

\* (note ? note + ";" : "") + part
NoteWith(nt, part) == Append(nt, part)

\* the object pushed to results
ResultRecord(row, f, status, su, nt) ==
  [rawAddress |-> row.rawAddress, bairro |-> row.bairro,
   cidade |-> row.cidade, estado |-> row.estado,
   originalAddress |-> row.rawAddress,
   correctedAddress |->
     IF status \in {"valid", "corrected"}
     THEN OrElse(IF f # <<>> THEN f[1].display_name ELSE <<>>, row.rawAddress)
     ELSE row.rawAddress,
   latitude |-> IF f # <<>> THEN <<f[1].lat>> ELSE <<>>,
   longitude |-> IF f # <<>> THEN <<f[1].lon>> ELSE <<>>,
   status |-> status,
   searchUsed |-> su,
   note |-> nt,
   display_name |-> IF f # <<>> THEN f[1].display_name ELSE <<>>]

InitResolve ==
  /\ addresses \in AddressLists
  /\ rPc = "request" /\ rI = 0 /\ found = <<>> /\ retr = <<>>
  /\ note = <<>> /\ searchUsed = "" /\ rResults = <<>> /\ rResponse = 0
  /\ rCalls = <<>> /\ rLogs = <<>> /\ slept = TRUE
  /\ ServeIdle
  /\ FileIdle
  /\ NormIdle
  /\ MatchIdle
  /\ ExportIdle

\* the head of the for loop: the next row, or the response after the last
LoopHead(i) ==
  /\ rI' = i
  /\ found' = <<>> /\ retr' = <<>> /\ note' = <<>> /\ searchUsed' = ""
  /\ rCalls' = <<>>
  /\ IF i < Len(addresses)
     THEN rPc' = "structured" /\ UNCHANGED rResponse
     ELSE rPc' = "done" /\ rResponse' = 200

\* results.push({...}) and the loop step
Push(f, status, su, nt, calls) ==
  /\ rResults' = Append(rResults, ResultRecord(Row, f, status, su, nt))
  /\ rLogs' = Append(rLogs, calls)
  /\ LoopHead(rI + 1)

\* a provider call is issued and settles
Called(kind, outcome) ==
  Append(rCalls, [kind |-> kind, outcome |-> outcome.kind,
                  result |-> outcome.result, afterSleep |-> slept])

\* step 3 on: validate what was found, or give the row up as pending
Validate(f, su, nt, calls) ==
  IF f = <<>>
  THEN Push(f, "pending", su, IF nt # <<>> THEN nt ELSE <<"nao-encontrado">>, calls)
  ELSE IF Matches(f[1], Row)
  THEN Push(f, "valid", su, <<"matches-planilha">>, calls)
  ELSE /\ rPc' = "retry"
       /\ found' = f /\ searchUsed' = su /\ note' = nt /\ rCalls' = calls
       /\ UNCHANGED <<rI, retr, rResults, rResponse, rLogs>>

\* req.json() is read
ReceiveAddresses ==
  /\ rPc = "request"
  /\ LoopHead(0)
  /\ UNCHANGED <<addresses, rResults, rLogs, slept>>
  /\ UNCHANGED <<serveVars, fileVars, normVars, matchVars, exportVars>>

\* variant of StructuredSearch whose exception leaves the handler
StructuredSearch_Aborts ==
  /\ rPc = "structured"
  /\ \E outcome \in SearchOutcomes :
       IF outcome.kind = "throw"
       THEN /\ rPc' = "done"
            /\ rResponse' = 500
            /\ rCalls' = Called("structured", outcome)
            /\ UNCHANGED <<found, retr, note, searchUsed, rI, rResults, rLogs>>
       ELSE /\ rPc' = "sleepStructured"
            /\ found' = outcome.result
            /\ searchUsed' = "structured"
            /\ rCalls' = Called("structured", outcome)
            /\ UNCHANGED <<note, retr, rI, rResults, rResponse, rLogs>>
  /\ slept' = FALSE
  /\ UNCHANGED addresses
  /\ UNCHANGED <<serveVars, fileVars, normVars, matchVars, exportVars>>

\* variant of StructuredSearch that gives the row up when the call throws
StructuredSearch_NoFallbackOnError ==
  /\ rPc = "structured"
  /\ \E outcome \in SearchOutcomes :
       IF outcome.kind = "throw"
       THEN Validate(<<>>, "structured", <<"erro-na-requisicao-structured">>,
                     Called("structured", outcome))
       ELSE /\ rPc' = "sleepStructured"
            /\ found' = outcome.result
            /\ searchUsed' = "structured"
            /\ rCalls' = Called("structured", outcome)
            /\ UNCHANGED <<note, retr, rI, rResults, rResponse, rLogs>>
  /\ slept' = FALSE
  /\ UNCHANGED addresses
  /\ UNCHANGED <<serveVars, fileVars, normVars, matchVars, exportVars>>

\* step 1: the structured search.  The sleep is inside the try, after the
\* call: a call that throws goes on to step 2 without it.
StructuredSearch ==
  /\ rPc = "structured"
  /\ \E outcome \in SearchOutcomes :
       IF outcome.kind = "throw"
       THEN /\ rPc' = "freetext"
            /\ note' = <<"erro-na-requisicao-structured">>
            /\ searchUsed' = "structured"
            /\ rCalls' = Called("structured", outcome)
            /\ UNCHANGED <<found, retr, rI, rResults, rResponse, rLogs>>
       ELSE /\ rPc' = "sleepStructured"
            /\ found' = outcome.result
            /\ searchUsed' = "structured"
            /\ rCalls' = Called("structured", outcome)
            /\ UNCHANGED <<note, retr, rI, rResults, rResponse, rLogs>>
  /\ slept' = FALSE
  /\ UNCHANGED addresses
  /\ UNCHANGED <<serveVars, fileVars, normVars, matchVars, exportVars>>

\* step 2: the free-text search
FreeTextSearch ==
  /\ rPc = "freetext"
  /\ \E outcome \in SearchOutcomes :
       IF outcome.kind = "throw"
       THEN Validate(<<>>, "freetext",
                     NoteWith(note, "erro-na-requisicao-freetext"),
                     Called("freetext", outcome))
       ELSE /\ rPc' = "sleepFreetext"
            /\ found' = outcome.result
            /\ searchUsed' = "freetext"
            /\ rCalls' = Called("freetext", outcome)
            /\ UNCHANGED <<note, retr, rI, rResults, rResponse, rLogs>>
  /\ slept' = FALSE
  /\ UNCHANGED addresses
  /\ UNCHANGED <<serveVars, fileVars, normVars, matchVars, exportVars>>

\* the corrective retry
RetrySearch ==
  /\ rPc = "retry"
  /\ \E outcome \in SearchOutcomes :
       IF outcome.kind = "throw"
       THEN Push(found, "mismatch", "retry-corrected",
                 NoteWith(note, "erro-na-requisicao-retry"),
                 Called("retry", outcome))
       ELSE /\ rPc' = "sleepRetry"
            /\ retr' = outcome.result
            /\ searchUsed' = "retry-corrected"
            /\ rCalls' = Called("retry", outcome)
            /\ UNCHANGED <<found, note, rI, rResults, rResponse, rLogs>>
  /\ slept' = FALSE
  /\ UNCHANGED addresses
  /\ UNCHANGED <<serveVars, fileVars, normVars, matchVars, exportVars>>

\* variant of RateLimitElapsed that takes any retry result as a correction
RateLimitElapsed_AcceptsAnyRetry ==
  /\ rPc \in {"sleepStructured", "sleepFreetext", "sleepRetry"}
  /\ slept' = TRUE
  /\ CASE rPc = "sleepStructured" ->
            IF found = <<>>
            THEN /\ rPc' = "freetext"
                 /\ UNCHANGED <<found, retr, note, searchUsed, rCalls, rI,
                                rResults, rResponse, rLogs>>
            ELSE Validate(found, searchUsed, note, rCalls)
       [] rPc = "sleepFreetext" -> Validate(found, searchUsed, note, rCalls)
       [] rPc = "sleepRetry" ->
            IF retr # <<>>
            THEN Push(retr, "corrected", searchUsed,
                      <<"retry-corrected-success">>, rCalls)
            ELSE Push(found, "mismatch", searchUsed,
                      <<"resultado-nao-coincide-com-cidade-bairro">>, rCalls)
  /\ UNCHANGED addresses
  /\ UNCHANGED <<serveVars, fileVars, normVars, matchVars, exportVars>>

\* variant of RateLimitElapsed that forgets `found = retr`
RateLimitElapsed_KeepsFirstResult ==
  /\ rPc \in {"sleepStructured", "sleepFreetext", "sleepRetry"}
  /\ slept' = TRUE
  /\ CASE rPc = "sleepStructured" ->
            IF found = <<>>
            THEN /\ rPc' = "freetext"
                 /\ UNCHANGED <<found, retr, note, searchUsed, rCalls, rI,
                                rResults, rResponse, rLogs>>
            ELSE Validate(found, searchUsed, note, rCalls)
       [] rPc = "sleepFreetext" -> Validate(found, searchUsed, note, rCalls)
       [] rPc = "sleepRetry" ->
            IF retr # <<>> /\ Matches(retr[1], Row)
            THEN Push(found, "corrected", searchUsed,
                      <<"retry-corrected-success">>, rCalls)
            ELSE Push(found, "mismatch", searchUsed,
                      <<"resultado-nao-coincide-com-cidade-bairro">>, rCalls)
  /\ UNCHANGED addresses
  /\ UNCHANGED <<serveVars, fileVars, normVars, matchVars, exportVars>>

\* sleep(RATE_LIMIT_DELAY) is over: the handler runs on to its next call
RateLimitElapsed ==
  /\ rPc \in {"sleepStructured", "sleepFreetext", "sleepRetry"}
  /\ slept' = TRUE
  /\ CASE rPc = "sleepStructured" ->
            IF found = <<>>
            THEN /\ rPc' = "freetext"
                 /\ UNCHANGED <<found, retr, note, searchUsed, rCalls, rI,
                                rResults, rResponse, rLogs>>
            ELSE Validate(found, searchUsed, note, rCalls)
       [] rPc = "sleepFreetext" -> Validate(found, searchUsed, note, rCalls)
       [] rPc = "sleepRetry" ->
            IF retr # <<>> /\ Matches(retr[1], Row)
            THEN Push(retr, "corrected", searchUsed,
                      <<"retry-corrected-success">>, rCalls)
            ELSE Push(found, "mismatch", searchUsed,
                      <<"resultado-nao-coincide-com-cidade-bairro">>, rCalls)
  /\ UNCHANGED addresses
  /\ UNCHANGED <<serveVars, fileVars, normVars, matchVars, exportVars>>

NextResolve ==
  \/ ReceiveAddresses
  \/ StructuredSearch
  \/ FreeTextSearch
  \/ RetrySearch
  \/ RateLimitElapsed

SpecResolve == InitResolve /\ [][NextResolve]_vars

\* ------------------------------------------------------------------------
\* Properties of the correct-addresses edge function (Spec)
\* ------------------------------------------------------------------------
\* correctAddressesBatchWithAI has returned for the current batch
CallReturned == sPc = "map" /\ requests > 0

LastOutcome == outcomes[Len(outcomes)]

\* C1: when the number of non-blank lines parsed from the provider's response
\* differs from the number of addresses sent, correctAddressesBatchWithAI
\* returns exactly the original addresses of the batch, in order.
C1_CountMismatchReturnsOriginals ==
  (CallReturned /\ LastOutcome \in {"text", "empty"}
     /\ parsedCount # Len(Addresses(Batch)))
    => correctedAddresses = Addresses(Batch)

C1_Witness ==
  /\ CallReturned /\ LastOutcome = "text"
  /\ parsedCount > 0 /\ parsedCount < Len(Addresses(Batch))

\* C2: every output row that has an address column carries either its own
\* original address or the provider's correction of its own address, never
\* the correction (or address) of another row of the batch.
C2_OwnAddressOrOwnCorrection ==
  \A i \in 1..Len(correctedRows) :
    rows[i].hasAddressKey =>
      \/ correctedRows[i].address = rows[i].address
      \/ /\ ownCorrection[i].sent
         /\ correctedRows[i].address = StrCell(ownCorrection[i].text)

\* C3: correctAddressesBatchWithAI is length-preserving whatever the provider
\* does on each attempt.
C3_LengthPreserving ==
  CallReturned => Len(correctedAddresses) = Len(Addresses(Batch))

C3_Witness ==
  /\ CallReturned /\ Len(Addresses(Batch)) >= 2
  /\ \A i \in 1..Len(correctedAddresses) : correctedAddresses[i] # Addresses(Batch)[i]

\* C4: at most 3 requests are issued for one batch, and when every attempt is
\* rate-limited the original addresses are returned unmodified.
C4_AtMostThreeRequests ==
  /\ requests <= 3
  /\ (CallReturned /\ \A k \in 1..Len(outcomes) : outcomes[k] = "429")
       => correctedAddresses = Addresses(Batch)

C4_Witness ==
  /\ CallReturned /\ requests = 3
  /\ \A k \in 1..Len(outcomes) : outcomes[k] = "429"

InCall == sPc \in {"fetch", "backoff", "map"}

\* C5 as stated: an attempt that fails other than by a rate limit (non-OK
\* status, empty completion, thrown error) is the last request of the batch
\* and the original addresses are returned.
C5_FailureEndsTheCall ==
  InCall =>
    \A k \in 1..Len(outcomes) :
      outcomes[k] \in {"notok", "empty", "throw"} =>
        /\ k = Len(outcomes)
        /\ sPc = "map" => correctedAddresses = Addresses(Batch)

\* C5 amended: a non-OK status or an empty completion ends the call with the
\* original addresses and no further request; a thrown error ends it that way
\* only on the third attempt, and on the first or second attempt the loop
\* goes on to the next attempt.
C5_FailureEndsTheCallUnlessThrown ==
  InCall =>
    \A k \in 1..Len(outcomes) :
      /\ outcomes[k] \in {"notok", "empty"} =>
           /\ k = Len(outcomes)
           /\ sPc = "map"
           /\ correctedAddresses = Addresses(Batch)
      /\ (outcomes[k] = "throw" /\ k = retries) =>
           /\ sPc = "map"
           /\ correctedAddresses = Addresses(Batch)
      /\ (outcomes[k] = "throw" /\ k < retries /\ k = Len(outcomes)) =>
           sPc = "fetch"

C5_Witness ==
  /\ CallReturned
  /\ outcomes = <<"throw", "text">>
  /\ correctedAddresses # Addresses(Batch)

\* ------------------------------------------------------------------------
\* Properties of the coordinate validation (SpecGeo)
\* ------------------------------------------------------------------------
\* C12: for a row with numeric stored coordinates whose geocoding succeeded,
\* latitude and longitude of the output row are the geocoded ones if the
\* geocoded point lies more than 200 m from the stored one, and the stored
\* ones, untouched, if it lies within 200 m.
C12_ReplacedIffBeyond200m ==
  \A i \in 1..Len(correctedRows) :
    geoOutcome[i].kind = "found" =>
      IF geoOutcome[i].far
      THEN /\ correctedRows[i].lat = NumCell(geoOutcome[i].lat)
           /\ correctedRows[i].lon = NumCell(geoOutcome[i].lon)
      ELSE /\ correctedRows[i].lat = rows[i].lat
           /\ correctedRows[i].lon = rows[i].lon

\* one row moved by a result just beyond 200 m, one row kept with a result
\* just within
C12_Witness ==
  /\ response = 200
  /\ \E i, j \in 1..Len(correctedRows) :
       /\ geoOutcome[i].kind = "found" /\ geoOutcome[i].far
       /\ geoOutcome[i].lat = 1799
       /\ correctedRows[i].lat = NumCell(1799)
       /\ geoOutcome[j].kind = "found" /\ ~geoOutcome[j].far
       /\ geoOutcome[j].lon = StoredLon + 1798
       /\ correctedRows[j].lon = NumCell(StoredLon)

GeocodingFailures == {"notok", "empty", "throw"}

\* C13: a geocoding failure of a row (non-OK status, empty list, exception)
\* leaves the row's latitude and longitude as stored, in the callback's row
\* and in the output, and fails nothing: the handler answers 200 with one
\* row per input row.
C13_GeocodingFailureKeepsCoordinates ==
  /\ \A i \in 1..Len(geoOutcome) :
       geoOutcome[i].kind \in GeocodingFailures =>
         /\ i <= Len(correctedRows) =>
              /\ correctedRows[i].lat = rows[i].lat
              /\ correctedRows[i].lon = rows[i].lon
         /\ (i > Len(correctedRows) /\ sPc = "geocode") =>
              /\ batchResults[i - batchStart].lat = rows[i].lat
              /\ batchResults[i - batchStart].lon = rows[i].lon
  /\ response \in {0, 200}
  /\ sPc = "done" => (response = 200 /\ Len(correctedRows) = Len(rows))

\* the geocoding of one row threw and another row of the same batch was
\* still moved
C13_Witness ==
  /\ response = 200
  /\ \E i, j \in 1..Len(correctedRows) :
       /\ geoOutcome[i].kind = "throw"
       /\ correctedRows[i].lat = rows[i].lat
       /\ geoOutcome[j].kind = "found"
       /\ correctedRows[j].lat # rows[j].lat

\* C19, coordinate validator: at most one geocoding request is in flight
\* at any time.
C19_OneGeocodingRequestAtATime ==
  Cardinality(pendingGeo) <= 1

\* batches are consecutive slices of at most AI_BATCH_SIZE rows; while the
\* requests of a batch are made every earlier batch has been pushed; no
\* geocoding request is outstanding outside the Promise.all of its batch;
\* the delay is taken only when rows remain
OneBatchAtATime ==
  /\ batchStart % AI_BATCH_SIZE = 0
  /\ BatchEnd - batchStart <= AI_BATCH_SIZE
  /\ sPc \in {"fetch", "backoff", "map", "geocode"} => Len(correctedRows) = batchStart
  /\ sPc # "geocode" => pendingGeo = {}
  /\ pendingGeo \subseteq 1..Len(Batch)
  /\ sPc = "delay" => BatchEnd < Len(rows)

\* the loop reaches a further batch only when the delay elapses
NextBatchAfterDelay ==
  (batchStart' # batchStart /\ batchStart' < Len(rows)) => sPc = "delay"

\* C23: the rows are processed in consecutive batches of at most 15, one
\* batch at a time: the requests of a batch are issued only after every
\* request of the batch before has completed and the inter-batch delay has
\* elapsed, and no delay follows the last batch.
C23_BatchesInSequence == []OneBatchAtATime /\ [][NextBatchAfterDelay]_vars

\* the second batch, reached through the delay, has made its correction
\* request and awaits a geocoding reply
C23_Witness ==
  /\ batchStart = AI_BATCH_SIZE
  /\ Len(correctedRows) = AI_BATCH_SIZE
  /\ requests > 0
  /\ sPc = "geocode" /\ pendingGeo # {}

\* C28: the response holds one row per input row, in input order; the
\* columns of a row other than address, latitude and longitude are those of
\* the input row, and a row without an address column is returned as it is.
C28_OtherFieldsKept ==
  /\ sPc = "done" => Len(correctedRows) = Len(rows)
  /\ Len(correctedRows) <= Len(rows)
  /\ \A i \in 1..Len(correctedRows) :
       /\ correctedRows[i].rest = rows[i].rest
       /\ correctedRows[i].hasAddressKey = rows[i].hasAddressKey
       /\ ~rows[i].hasAddressKey => correctedRows[i] = rows[i]

\* the response to two different rows: the first came back with another
\* address and another latitude, the second has no address column
C28_Witness ==
  /\ sPc = "done"
  /\ Len(rows) = 2
  /\ rows[1].rest # rows[2].rest
  /\ correctedRows[1].address # rows[1].address
  /\ correctedRows[1].lat # rows[1].lat
  /\ ~rows[2].hasAddressKey

\* ------------------------------------------------------------------------
\* Properties of the batch-geocode handler (SpecResolve)
\* ------------------------------------------------------------------------
\* the structured and free-text calls of a row that returned a result
PrimaryFinds(log) ==
  SelectSeq(log, LAMBDA c : c.kind \in {"structured", "freetext"}
                              /\ c.outcome = "found")

RetryCalls(log) == SelectSeq(log, LAMBDA c : c.kind = "retry")

\* the first result found for a row, by the structured search or else by
\* the free-text search
FoundFirst(log) == PrimaryFinds(log) # <<>>
FirstResult(log) == PrimaryFinds(log)[1].result[1]

\* the corrective retry ran and returned a result that passes validation
RetryPasses(log, row) ==
  /\ RetryCalls(log) # <<>>
  /\ RetryCalls(log)[1].outcome = "found"
  /\ Matches(RetryCalls(log)[1].result[1], row)

\* C14: the status of a result is valid iff the first result found passes
\* the locality validation; corrected iff it fails and the corrective retry
\* returns a result that passes; mismatch iff it fails and the retry returns
\* nothing, a result that fails, or an error; pending iff neither the
\* structured nor the free-text search returned a result.  The retry is
\* made exactly for a found result that fails.
C14_StatusFollowsLookups ==
  \A k \in 1..Len(rResults) :
    LET log == rLogs[k]
        row == addresses[k]
        status == rResults[k].status
        failed == FoundFirst(log) /\ ~Matches(FirstResult(log), row)
    IN /\ status \in {"valid", "corrected", "mismatch", "pending"}
       /\ status = "valid" <=> (FoundFirst(log) /\ Matches(FirstResult(log), row))
       /\ status = "corrected" <=> (failed /\ RetryPasses(log, row))
       /\ status = "mismatch" <=> (failed /\ ~RetryPasses(log, row))
       /\ status = "pending" <=> ~FoundFirst(log)
       /\ (RetryCalls(log) # <<>>) <=> failed

\* one row corrected by the retry, one row left a mismatch by a retry that
\* returned a place of the wrong city again
C14_Witness ==
  /\ rResponse = 200
  /\ \E j, k \in 1..Len(rResults) :
       /\ rResults[j].status = "corrected"
       /\ rResults[k].status = "mismatch"
       /\ RetryCalls(rLogs[k])[1].outcome = "found"

NoHints(row) == row.bairro = <<>> /\ row.cidade = <<>> /\ row.estado = <<>>

\* C15: for a row without locality hints every result found is accepted:
\* the status is valid.
C15_NoHintsAcceptsAnyResult ==
  \A k \in 1..Len(rResults) :
    (NoHints(addresses[k]) /\ FoundFirst(rLogs[k])) => rResults[k].status = "valid"

\* C16: a valid or corrected result carries the latitude and longitude of
\* the provider result that passed validation (the first result found, or
\* the retry's); a pending result carries neither.
C16_CoordinatesOfValidatedResult ==
  \A k \in 1..Len(rResults) :
    LET log == rLogs[k]
        res == rResults[k]
    IN /\ res.status = "valid" =>
            /\ Matches(FirstResult(log), addresses[k])
            /\ res.latitude = <<FirstResult(log).lat>>
            /\ res.longitude = <<FirstResult(log).lon>>
       /\ res.status = "corrected" =>
            /\ Matches(RetryCalls(log)[1].result[1], addresses[k])
            /\ res.latitude = <<RetryCalls(log)[1].result[1].lat>>
            /\ res.longitude = <<RetryCalls(log)[1].result[1].lon>>
       /\ res.status = "pending" =>
            (res.latitude = <<>> /\ res.longitude = <<>>)

\* a corrected row whose first result, of another place, did not pass
C16_Witness ==
  \E k \in 1..Len(rResults) :
    /\ rResults[k].status = "corrected"
    /\ FirstResult(rLogs[k]) = PlaceElsewhere
    /\ rResults[k].latitude = <<PlaceInCity.lat>>
    /\ rResults[k].longitude = <<PlaceInCity.lon>>

\* C17: a mismatch or pending result has the raw input address as its
\* correctedAddress, and its latitude and longitude are not those of the
\* provider result that failed validation.
C17_UnvalidatedResultNotUsed ==
  \A k \in 1..Len(rResults) :
    rResults[k].status \in {"mismatch", "pending"} =>
      /\ rResults[k].correctedAddress = addresses[k].rawAddress
      /\ FoundFirst(rLogs[k]) =>
           /\ rResults[k].latitude # <<FirstResult(rLogs[k]).lat>>
           /\ rResults[k].longitude # <<FirstResult(rLogs[k]).lon>>

\* C18: provider exceptions never abort the batch: the only response is
\* 200, results are pushed one per row in input order, all rows have a
\* result at the end, and a row all of whose lookups threw is pending or
\* mismatch with a non-empty note.
C18_ExceptionsNeverAbort ==
  /\ rResponse \in {0, 200}
  /\ Len(rResults) = rI
  /\ rPc = "done" => Len(rResults) = Len(addresses)
  /\ \A k \in 1..Len(rResults) :
       /\ Expected(rResults[k]) = Expected(addresses[k])
       /\ rResults[k].originalAddress = addresses[k].rawAddress
       /\ (\A c \in 1..Len(rLogs[k]) : rLogs[k][c].outcome = "throw") =>
            /\ rResults[k].status \in {"pending", "mismatch"}
            /\ rResults[k].note # <<>>

\* both lookups of the first row threw and the second, different row was
\* still resolved
C18_Witness ==
  /\ rResponse = 200
  /\ Len(rResults) = 2
  /\ addresses[1] # addresses[2]
  /\ Len(rLogs[1]) = 2
  /\ \A c \in 1..2 : rLogs[1][c].outcome = "throw"
  /\ rResults[1].status = "pending"
  /\ Len(rResults[1].note) = 2
  /\ rResults[2].status = "valid"

CallKinds(log) == [c \in 1..Len(log) |-> log[c].kind]

\* C24: the calls made for a row are structured, then free-text, then the
\* corrective retry, each at most once; the free-text call is made iff the
\* structured call returned nothing or threw, and the retry iff a result
\* found by one of the two failed the locality validation.
C24_CallOrder ==
  /\ CallKinds(rCalls) \in {<<>>, <<"structured">>, <<"structured", "freetext">>,
                            <<"structured", "retry">>,
                            <<"structured", "freetext", "retry">>}
  /\ \A k \in 1..Len(rResults) :
       LET log == rLogs[k]
           kinds == CallKinds(log)
       IN /\ kinds \in {<<"structured">>, <<"structured", "freetext">>,
                        <<"structured", "retry">>,
                        <<"structured", "freetext", "retry">>}
          /\ (\E c \in 1..Len(log) : kinds[c] = "freetext")
               <=> log[1].outcome \in {"null", "throw"}
          /\ (\E c \in 1..Len(log) : kinds[c] = "retry")
               <=> (FoundFirst(log) /\ ~Matches(FirstResult(log), addresses[k]))

\* a row that took all three calls: the structured call threw and the
\* free-text call found a place of another city
C24_Witness ==
  \E k \in 1..Len(rResults) :
    /\ CallKinds(rLogs[k]) = <<"structured", "freetext", "retry">>
    /\ rLogs[k][1].outcome = "throw"
    /\ rLogs[k][2].result = <<PlaceElsewhere>>

\* C25: every provider call is followed by the rate-limit delay: whenever
\* the delay has not elapsed since the last call, the handler is sleeping.
C25_DelayAfterEveryCall ==
  ~slept => rPc \in {"sleepStructured", "sleepFreetext", "sleepRetry"}

\* ------------------------------------------------------------------------
\* Properties of addressMatchesExpected (SpecMatch)
\* ------------------------------------------------------------------------
\* C26: the state check holds when no state is expected, and otherwise
\* whenever the provider reported a state, whatever it is; the district
\* check holds whenever a district is expected and the provider reported one.
C26_StateAndDistrictChecks ==
  mChecks # <<>> =>
    /\ mExpected.estado = <<>> => mChecks[1].state
    /\ (mExpected.estado # <<>> /\ mAddress.state # <<>>) => mChecks[1].state
    /\ (mExpected.bairro # <<>> /\ mAddress.suburb # <<>>) => mChecks[1].bairro

\* RJ and Centro are expected, the provider reports Lapa in Sao Paulo state,
\* and the address of the right city is accepted
C26_Witness ==
  /\ mChecks # <<>>
  /\ mExpected.estado = <<"R", "J">> /\ mAddress.state = <<"S", "ã", "o", " ", "P", "a", "u", "l", "o">>
  /\ mExpected.bairro = <<"C", "e", "n", "t", "r", "o">> /\ mAddress.suburb = <<"L", "a", "p", "a">>
  /\ mChecks[1].state /\ mChecks[1].bairro /\ mChecks[1].result

\* ------------------------------------------------------------------------
\* Properties of processFile (SpecFile)
\* ------------------------------------------------------------------------
\* C6: processedData is the corrected rows only if the correction call
\* settled without error before the timer fired; after a timeout, an error
\* or a rejection it is the merged rows in full, and a reply that arrives
\* after the timeout has won does not replace it.
C6_FallbackUnlessCorrectionWins ==
  /\ raceWinner = "none" => processedData = <<>>
  /\ raceWinner \in {"timeout", "error", "rejected"} => processedData = results
  /\ (raceWinner # "none" /\ processedData # results) =>
       (raceWinner = "corrected" /\ processedData = CorrectedByService(results))

C6_Witness ==
  /\ raceWinner = "timeout"
  /\ ~correctionPending
  /\ fPc = "done"
  /\ processedData = results
  /\ CorrectedByService(results) # results

\* the forEach over jsonData was run (to its end or to an exception)
GroupingRan ==
  fPc \in {"racing", "finalizing", "showing", "done"} \/ fError = "TypeError"

\* number of places row i takes in the buckets
Placements(i) ==
  Cardinality({kj \in (1..Len(grouped)) \X (1..Len(jsonData)) :
                 /\ kj[2] <= Len(grouped[kj[1]].rows)
                 /\ grouped[kj[1]].rows[kj[2]] = i})

\* C7: grouping partitions the input: every row is in exactly one bucket,
\* and there is one merged row per bucket, at most one per input row.
C7_GroupingPartitions ==
  GroupingRan =>
    /\ \A i \in 1..Len(jsonData) : Placements(i) = 1
    /\ Len(results) = Len(grouped)
    /\ Len(results) <= Len(jsonData)

\* String(v) of a cell that is present
CellText(v) == IF v.t = "num" THEN NatToStr(v.n) ELSE v.s

\* a sequence value that is not blank: present and not only white space
NonBlank(v) == v # Undef /\ Trim(CellText(v)) # <<>>

\* C10: with a sequence column, the merged row of each group carries the
\* non-blank sequence values of all rows of the group, in sheet order,
\* joined by "; ".
C10_SequencesMerged ==
  (fPc \in {"racing", "finalizing", "showing", "done"}
     /\ FindColumn(jsonData, SequenceSynonyms) # <<>>) =>
    \A k \in 1..Len(results) :
      LET members == ObjectEntries(grouped)[k].rows
          values == SelectSeq([j \in 1..Len(members) |-> jsonData[members[j]].sequence],
                              NonBlank)
      IN results[k].sequence =
           StrCell(Join([j \in 1..Len(values) |-> CellText(values[j])],
                        <<";", " ">>))

\* for each header of the sheets: whether it contains an address synonym
AddressLike ==
  {<<Headers[h], \E syn \in AddressSynonyms : Includes(ToLower(Headers[h]), syn)>> :
     h \in 1..Len(Headers)}

\* the upload has no rows, or no column of its first row is an address column
NoAddressData ==
  \/ Len(jsonData) = 0
  \/ \A h \in 1..Len(Headers) :
       Cell(jsonData[1], Headers[h]) # Undef => <<Headers[h], TRUE>> \notin AddressLike

\* C20: for an upload without rows or without an address column processFile
\* stops where it finds that out: it is back at step 1 with isProcessing
\* false, the correction service is never called (no call and no timer
\* pending, no race settled) and processedData is not set.
C20_NoAddressDataHalts ==
  NoAddressData =>
    /\ fPc \in {"idle", "reading", "identifying", "failed"}
    /\ Len(jsonData) = 0 => fPc # "identifying"
    /\ fPc = "failed" => (currentStep = 1 /\ ~isProcessing)
    /\ ~correctionPending /\ ~timerPending /\ raceWinner = "none"
    /\ results = <<>> /\ processedData = <<>>

\* a sheet whose first row lacks the address cell while a later row has one
C20_Witness ==
  /\ fError = "noAddressColumn"
  /\ Len(jsonData) >= 2
  /\ jsonData[2].address # Undef
  /\ currentStep = 1 /\ ~isProcessing

\* the grouping key of row i of the sheet
KeyOfRow(i) ==
  normalizeAddress(Trim(StringOrEmpty(
    Cell(jsonData[i], FindColumn(jsonData, AddressSynonyms)))))

DistinctKeys == {KeyOfRow(i) : i \in 1..Len(jsonData)}

\* C21: at the results step the rows on display are as many as the
\* distinct grouping keys of the sheet and the stored total is the number of
\* rows of the sheet, however the correction ended.
C21_CountsAtResults ==
  currentStep = 3 =>
    /\ Len(processedData) = Cardinality(DistinctKeys)
    /\ totalSequencesCount = Len(jsonData)

\* results shown after a timeout for three rows under two keys
C21_Witness ==
  /\ currentStep = 3
  /\ raceWinner = "timeout"
  /\ Len(jsonData) = 3
  /\ Len(processedData) = 2

\* the rows on which a grouping key occurs for the first time, in sheet
\* order
FirstAppearances ==
  SelectSeq([i \in 1..Len(jsonData) |-> i],
            LAMBDA i : \A j \in 1..(i - 1) : KeyOfRow(j) # KeyOfRow(i))

\* C27: the merged rows are in the order in which their keys first appear
\* in the sheet, also for keys that are bare numbers.
C27_FirstAppearanceOrder ==
  fPc \in {"racing", "finalizing", "showing", "done"} =>
    /\ Len(results) = Len(FirstAppearances)
    /\ \A k \in 1..Len(results) :
         results[k].address = jsonData[FirstAppearances[k]].address

\* C30: a run that entered the processing step leaves it: it ends at step 3
\* with isProcessing false and progress 100, or at step 1 with isProcessing
\* false, even when the correction call never settles.
C30_RunEnds ==
  (currentStep = 2) ~>
    \/ currentStep = 3 /\ ~isProcessing /\ progress = 100
    \/ currentStep = 1 /\ ~isProcessing

\* the results step reached by the timeout while the correction call is
\* still unsettled
C30_Witness ==
  /\ currentStep = 3 /\ ~isProcessing /\ progress = 100
  /\ raceWinner = "timeout"
  /\ correctionPending

\* ------------------------------------------------------------------------
\* Properties of handleExport and the credit balance (SpecExport)
\* ------------------------------------------------------------------------
\* C22: a handleExport call writes a file only if the balance it saw was at
\* least 1 and deduct_credit reported success, and then the ledger was
\* decremented once for it; a call that saw a balance below 1 or whose
\* deduction failed writes no file and takes no credit.
C22_ExportGatedByCredit ==
  \A k \in 1..Len(exports) :
    LET e == exports[k]
    IN /\ e.file => (e.creditsAtCall >= 1 /\ e.reply = "success" /\ e.deducted = 1)
       /\ (e.creditsAtCall < 1 \/ e.reply = "failure") => (~e.file /\ e.deducted = 0)

\* one call wrote a file, another was refused for lack of credits or had
\* its deduction fail
C22_Witness ==
  /\ ePc = "idle"
  /\ \E k \in 1..Len(exports) : exports[k].file
  /\ \E k \in 1..Len(exports) :
       exports[k].creditsAtCall < 1 \/ exports[k].reply = "failure"

\* C29: after a successful export whose local decrement has run, once
\* every published profile update has been delivered, the credits of the
\* page equal the ledger.
C29_LocalCreditsEqualLedger ==
  (/\ \E k \in 1..Len(exports) : exports[k].reply = "success"
   /\ ePc \in {"idle", "download"}
   /\ notifications = <<>>)
    => credits = ledger

\* ------------------------------------------------------------------------
\* Properties of normalizeAddress (SpecNorm)
\* ------------------------------------------------------------------------
\* C8: the same street with different house numbers never gives the same
\* grouping key.
C8_DifferentNumbersDifferentKeys ==
  (nKeys # <<>> /\ nIn.complA = <<>> /\ nIn.complB = <<>>
     /\ nIn.numA # nIn.numB)
    => nKeys[1] # nKeys[2]

\* C9: the same street and house number with different complements give the
\* same grouping key, and that key is the street-plus-number prefix.
C9_ComplementIgnored ==
  (nKeys # <<>> /\ nIn.numA = nIn.numB /\ nIn.complA # nIn.complB)
    => /\ nKeys[1] = nKeys[2]
       /\ nKeys[1] = CollapseSpaces(Trim(nIn.street \o nIn.sep \o nIn.numA))

\* C11: normalizeAddress is idempotent: the key of a key is that key, for
\* structured addresses and for arbitrary texts alike.
C11_NormalizeIdempotent ==
  nAgain # <<>> => nAgain = nKeys

\* an untidy text with a house number was cut and cleaned, and its key is
\* its own key
C11_Witness ==
  /\ nAgain # <<>>
  /\ nIn \in RawInputs
  /\ StreetNumberMatch(CollapseSpaces(Trim(AddressA))) > 0
  /\ Len(nKeys[1]) + 2 <= Len(AddressA)
  /\ nAgain[1] = nKeys[1]

====
